---------------------------- MODULE Spec2Model ----------------------------
(***************************************************************************)
(* Publish scheduler and queue of sport-bot: bot/scheduler.py,             *)
(* bot/publish.py, bot/sender.py and the admin manual publish of           *)
(* webapp/main.py, as a state machine over the publish_queue and           *)
(* publish_map tables and the chat platform's message log.                 *)
(*                                                                         *)
(* Time is in whole seconds (UTC, epoch 0 = midnight).  Every timestamp    *)
(* the code stores is an ISO-8601 UTC string cut to the second             *)
(* (replace(microsecond=0)); on whole seconds the cut changes nothing and  *)
(* the lexicographic order of those strings is the numeric order, so a     *)
(* timestamp is its number of seconds.                                     *)
(*                                                                         *)
(* A nullable column is a sequence: <<>> for NULL, <<v>> for the value v.  *)
(***************************************************************************)
EXTENDS Integers, Sequences, FiniteSets, TLC

VARIABLES
    now,          \* the wall clock, datetime.now(timezone.utc)
    queue,        \* table publish_queue: row i has id i
    chat,         \* the messages the chat platform has accepted, in order
    publish_map,  \* table publish_map, keyed by story id
    config,       \* SchedulerConfig, as _load_config read it from the environment
    creds,        \* TG_BOT_TOKEN and TG_CHANNEL_ID are both set
    last,         \* the last call made: its arguments and what it returned
    sched,        \* where a process_once that runs step by step stands
    retry,        \* where a call of _with_retry stands
    publish_edits, \* table publish_edits: row i has id i
    admin,        \* where a publish_story_now that runs step by step stands
    split,        \* where a call of _split_messages stands
    antidup,      \* where a call of filter_near_duplicates stands
    tags,         \* table tags: row i has id i
    news,         \* tables news and content_fingerprints, as far as the clusterer reads them
    stories,      \* table stories: row i has id i
    story_articles, \* table story_articles: pairs <<story_id, news_id>>
    build,        \* where a run of the clusterer stands
    rival,        \* where a second run of the clusterer, in another process, stands
    norm,         \* the results of normalize_url on one URL
    feed,         \* table news as upsert_news writes it: row i has id i
    crawl,        \* where a call of collect_until_anchor_by_url stands
    sig,          \* the results of title_signature on a title and on a reordering of it
    pairing,      \* the clusters union_clusters and build_clusters make of a list of items
    assign        \* table news_entity_assignments for one article, and the last call's result

\* The tables and calls of the pipeline before the publisher.
clusterVars == <<news, stories, story_articles, build, rival>>
\* The crawler: sync_champ_news.py
syncVars == <<norm, feed, crawl>>
\* The fingerprints and the categorizer.
catVars == <<sig, pairing, assign>>
pipeVars == <<split, antidup, tags, clusterVars, syncVars, catVars>>

\* The state of the publisher: scheduler, chat and admin.
botVars == <<now, queue, chat, publish_map, config, creds, last, sched, retry, publish_edits, admin>>

vars == <<botVars, pipeVars>>

Null == <<>>
Some(v) == <<v>>
Val(o) == o[1]

\* ------------------------------------------------------------------ bounds
MaxRows == 2         \* rows of publish_queue
MaxSlots == 0        \* calls are made at 0..MaxSlots half-hours of a day
MaxChat == 2         \* messages in the chat before a cancellable dispatch starts
RateRows == 3        \* rows of publish_queue under the rate limits
RateSlots == 6       \* the scheduler runs 0..RateSlots half-hours past midnight
QuietRows == 1       \* rows of publish_queue under quiet hours
DedupDays == 1       \* DEDUP_WINDOW_DAYS of the environment
MaxRetryAfter == 5   \* the longest retry_after the chat platform answers with
EditRows == 1        \* rows of publish_queue before edits and appends
MaxEdits == 1        \* rows of publish_edits
MaxAppends == 3      \* edits and appends of one admin session
SplitLimit == 3      \* the limit _split_messages is called with
MaxLines == 3        \* lines given to _split_messages
MaxTokens == 5       \* distinct tokens in the title signatures
MaxArticles == 3     \* articles given to filter_near_duplicates
MaxTags == 2         \* rows of table tags
MaxNews == 4         \* rows of table news
MaxPath == 3         \* characters of a URL's path
MaxPasses == 2       \* times normalize_url is applied to its own result
MaxFeed == 2         \* rows of table news that upsert_news writes
MaxPages == 2        \* max_pages of collect_until_anchor_by_url
MaxItems == 2        \* items on a page of the listing
SigTop == 2          \* `top` of title_signature (8 in the code)
MaxWords == 3        \* tokens of a title
MaxUnion == 3        \* items given to union_clusters
MaxTagRows == 2      \* tags of the article given to assign_entities_for_article
LoopRows == 2        \* rows of publish_queue when the scheduler's loop starts

\* --------------------------------------------------- constants of the code
SecPerHour == 3600
SecPerDay == 86400
HoursPerDay == 24
TIME_DELTA_LIMIT == 6
LookbackHours == 72
MAX_ATTEMPTS == 3

\* SchedulerConfig(interval_sec, max_per_hour, max_per_day, quiet_hours,
\* tzinfo, dedup_window_days); tzinfo is UTC throughout.
SchedulerConfig(interval, max_hour, max_day, quiet, dedup_days) ==
    [interval_sec |-> interval, max_per_hour |-> max_hour, max_per_day |-> max_day,
     quiet_hours |-> quiet, dedup_window_days |-> dedup_days]

\* Stories: the ids in table stories.  StoryIds: the ids an admin puts in
\* /publish/story/{story_id}.
Stories == {1, 2}
StoryIds == Stories
Modes == {"html"}

\* _compose_story_chunks: the number of messages a story's text is split
\* into (the text is the story's, so the count is fixed per story).
NChunks(s) == IF s = 2 THEN 3 ELSE 1

\* f"story:{story_id}"
DedupKey(s) == <<"story", s>>

\* ------------------------------------------------------------- scheduler.py

\* _is_quiet(now_local, quiet_hours); hour = now_local.hour, TZ = UTC
LocalHour(t) == (t \div SecPerHour) % HoursPerDay

\* Mutant of _is_quiet: a window that wraps midnight is never quiet.
_is_quiet_NoWrap(t, qh) ==
    IF qh = Null THEN FALSE
    ELSE qh[1] <= LocalHour(t) /\ LocalHour(t) < qh[2]

_is_quiet(t, qh) ==
    IF qh = Null THEN FALSE
    ELSE LET start == qh[1]
             end == qh[2]
             hour == LocalHour(t)
         IN  IF start = end THEN FALSE
             ELSE IF start < end THEN start <= hour /\ hour < end
             ELSE hour >= start \/ hour < end

\* COALESCE(sent_at, enqueued_at)
Coalesce(r) == IF r.sent_at # Null THEN Val(r.sent_at) ELSE r.enqueued_at

\* now - timedelta(days=config.dedup_window_days)
WindowStart(t, cfg) == t - cfg.dedup_window_days * SecPerDay

RowIds(q) == 1..Len(q)

\* The columns the schema fills by default on INSERT: status 'queued' and
\* enqueued_at = the time of the insert.
DefaultStatus == "queued"
DefaultEnqueuedAt(t) == t

\* INSERT INTO publish_queue (item_type, item_id, priority, scheduled_at,
\* dedup_key) VALUES ('story', ?, ?, ?, ?)
NewRow(s, priority, scheduled_at, t) ==
    [item_type |-> "story", item_id |-> s, priority |-> priority,
     status |-> DefaultStatus, scheduled_at |-> scheduled_at,
     enqueued_at |-> DefaultEnqueuedAt(t), sent_at |-> Null,
     message_id |-> Null, error |-> Null, dedup_key |-> DedupKey(s)]

\* Mutant of EnqueueExisting: only rows already sent block an enqueue.
EnqueueExisting_SentOnly(q, s, t, cfg) ==
    \E i \in RowIds(q) :
        /\ q[i].dedup_key = DedupKey(s)
        /\ q[i].status = "sent"
        /\ Coalesce(q[i]) >= WindowStart(t, cfg)

\* enqueue_recent_stories: the dedup SELECT.  TRUE when a row with the key,
\* of any status, lies inside the dedup window.
EnqueueExisting(q, s, t, cfg) ==
    \E i \in RowIds(q) :
        /\ q[i].dedup_key = DedupKey(s)
        /\ Coalesce(q[i]) >= WindowStart(t, cfg)

\* enqueue_recent_stories: the loop over the selected stories, in order.
RECURSIVE EnqueueLoop(_, _, _, _, _, _)
EnqueueLoop(q, ss, priority, scheduled_at, t, cfg) ==
    IF ss = <<>> THEN q
    ELSE LET s == Head(ss)
             q1 == IF EnqueueExisting(q, s, t, cfg) THEN q
                   ELSE Append(q, NewRow(s, priority, scheduled_at, t))
         IN  EnqueueLoop(q1, Tail(ss), priority, scheduled_at, t, cfg)

\* Mutant of Due: the WHERE clause without status = 'queued'.
Due_AnyStatus(q, t) ==
    {i \in RowIds(q) : q[i].scheduled_at = Null \/ Val(q[i].scheduled_at) <= t}

\* _dequeue_next: the rows the SELECT may return.  ORDER BY priority DESC,
\* enqueued_at ASC LIMIT 1 leaves the choice among equal rows to the engine.
Due(q, t) ==
    {i \in RowIds(q) :
        /\ q[i].status = "queued"
        /\ (q[i].scheduled_at = Null \/ Val(q[i].scheduled_at) <= t)}

_dequeue_next_Fifo(q, t) ==
    {i \in Due(q, t) : \A j \in Due(q, t) : q[j].enqueued_at >= q[i].enqueued_at}

_dequeue_next(q, t) ==
    {i \in Due(q, t) :
        \A j \in Due(q, t) :
            \/ q[j].priority < q[i].priority
            \/ (q[j].priority = q[i].priority /\ q[j].enqueued_at >= q[i].enqueued_at)}

SentRows(q) == {i \in RowIds(q) : q[i].status = "sent" /\ q[i].sent_at # Null}

\* Mutant of _check_rate_limits: no interval check.
_check_rate_limits_NoInterval(q, t, cfg) ==
    IF Cardinality({i \in RowIds(q) : q[i].status = "sent" /\ q[i].sent_at # Null
                                        /\ Val(q[i].sent_at) >= t - SecPerHour})
                >= cfg.max_per_hour
        THEN "hour"
    ELSE IF Cardinality({i \in RowIds(q) : q[i].status = "sent" /\ q[i].sent_at # Null
                                             /\ Val(q[i].sent_at) >= t - SecPerDay})
                >= cfg.max_per_day
        THEN "day"
    ELSE ""

\* Mutant of _check_rate_limits: the counts compared with > instead of >=.
_check_rate_limits_OffByOne(q, t, cfg) ==
    IF \E i \in RowIds(q) : /\ q[i].status = "sent" /\ q[i].sent_at # Null
                             /\ t - Val(q[i].sent_at) < cfg.interval_sec
        THEN "interval"
    ELSE IF Cardinality({i \in RowIds(q) : q[i].status = "sent" /\ q[i].sent_at # Null
                                             /\ Val(q[i].sent_at) >= t - SecPerHour})
                > cfg.max_per_hour
        THEN "hour"
    ELSE IF Cardinality({i \in RowIds(q) : q[i].status = "sent" /\ q[i].sent_at # Null
                                             /\ Val(q[i].sent_at) >= t - SecPerDay})
                > cfg.max_per_day
        THEN "day"
    ELSE ""

\* _check_rate_limits: "" when the send may go ahead, else the reason.
LastSent(q) ==
    CHOOSE i \in SentRows(q) :
        \A j \in SentRows(q) : Val(q[j].sent_at) <= Val(q[i].sent_at)

\* Mutant of _check_rate_limits: the sends of the hour are all the sends.
_check_rate_limits_NoWindow(q, t, cfg) ==
    IF SentRows(q) # {} /\ t - Val(q[LastSent(q)].sent_at) < cfg.interval_sec
        THEN "interval"
    ELSE IF Cardinality(SentRows(q)) >= cfg.max_per_hour
        THEN "hour"
    ELSE IF Cardinality({i \in SentRows(q) : Val(q[i].sent_at) >= t - SecPerDay})
                >= cfg.max_per_day
        THEN "day"
    ELSE ""

_check_rate_limits(q, t, cfg) ==
    IF SentRows(q) # {} /\ t - Val(q[LastSent(q)].sent_at) < cfg.interval_sec
        THEN "interval"
    ELSE IF Cardinality({i \in SentRows(q) : Val(q[i].sent_at) >= t - SecPerHour})
                >= cfg.max_per_hour
        THEN "hour"
    ELSE IF Cardinality({i \in SentRows(q) : Val(q[i].sent_at) >= t - SecPerDay})
                >= cfg.max_per_day
        THEN "day"
    ELSE ""

\* mark_status: UPDATE publish_queue SET status, error, message_id, sent_at
\* WHERE id = :id
mark_status(q, id, status, error, message_id, t) ==
    [q EXCEPT ![id] =
        [@ EXCEPT !.status = status,
                  !.error = error,
                  !.message_id = message_id,
                  !.sent_at = IF status = "sent" THEN Some(t) ELSE @]]


\* --------------------------------------------------------------- publish.py

\* The message the platform stores for chunk k of story s.  row is the queue
\* row whose dispatch sent it (bookkeeping: the platform does not see it).
Message(id, s, k, reply_to, row) ==
    [message_id |-> id, story |-> s, chunk |-> k, reply_to |-> reply_to, row |-> row,
     text |-> <<s, k>>]

\* _send_chunks: chunks 1..n sent in order, each as a reply to the one
\* before; send_text either returns the accepted message or raises, and the
\* first raise ends the loop.  fail_at = 0: no send raises; fail_at = k: the
\* send of chunk k raises.  The messages the platform accepted:
\* One send_text the platform accepts: the message gets the next id.
SendText(ch, s, k, reply_to, row) ==
    Append(ch, Message(Len(ch) + 1, s, k, reply_to, row))

RECURSIVE SendChunks(_, _, _, _, _)
SendChunks(ch, s, k, upto, row) ==
    IF k > upto THEN ch
    ELSE LET reply_to == IF k = 1 THEN Null ELSE Some(ch[Len(ch)].message_id)
         IN  SendChunks(SendText(ch, s, k, reply_to, row), s, k + 1, upto, row)

_send_chunks(ch, s, fail_at, row) ==
    SendChunks(ch, s, 1, IF fail_at = 0 THEN NChunks(s) ELSE fail_at - 1, row)

\* render_story_message raises for an id that is no story, and on any
\* failure of its database reads (io_ok = FALSE).
RenderOk(s, io_ok) == s \in Stories /\ io_ok

\* store_publish_map: INSERT ... ON CONFLICT(item_type, item_id) DO UPDATE
store_publish_map(pm, s, message_id, text, mode, t) ==
    [pm EXCEPT ![s] = Some([message_id |-> message_id, sent_at |-> t,
                            text |-> text, mode |-> mode])]

\* publish_story(story_id, dry_run=False, ...): what the call leaves behind
\* and returns.  raised: the exception of a failed send left the function;
\* ids: the message ids returned otherwise ([] when render failed).
publish_story(ch, pm, s, mode, io_ok, fail_at, row, t) ==
    IF ~RenderOk(s, io_ok)
    THEN [chat |-> ch, pm |-> pm, raised |-> FALSE, ids |-> <<>>]
    ELSE LET ch1 == _send_chunks(ch, s, fail_at, row)
             ids == [k \in 1..(Len(ch1) - Len(ch)) |-> ch1[Len(ch) + k].message_id]
         IN  IF fail_at # 0
             THEN [chat |-> ch1, pm |-> pm, raised |-> TRUE, ids |-> <<>>]
             ELSE [chat |-> ch1,
                   pm |-> IF ids # <<>>
                          THEN store_publish_map(pm, s, ids[1], <<s, 1>>, mode, t)
                          ELSE pm,
                   raised |-> FALSE, ids |-> ids]

\* str(message_ids[0]) if message_ids else None
PrimaryMsg(ids) == IF ids # <<>> THEN Some(ids[1]) ELSE Null

\* ------------------------------------------------------------- webapp/main.py

\* _fetch_recent_queue_entry: the newest queued or sent row of the story inside
\* the dedup window (ORDER BY COALESCE(sent_at, enqueued_at) DESC, id DESC
\* LIMIT 1), as a set: empty when there is none.
RecentRows(q, s, t, cfg) ==
    {i \in RowIds(q) :
        /\ q[i].dedup_key = DedupKey(s)
        /\ q[i].status \in {"queued", "sent"}
        /\ Coalesce(q[i]) >= WindowStart(t, cfg)}

_fetch_recent_queue_entry(q, s, t, cfg) ==
    {i \in RecentRows(q, s, t, cfg) :
        \A j \in RecentRows(q, s, t, cfg) :
            \/ Coalesce(q[j]) < Coalesce(q[i])
            \/ (Coalesce(q[j]) = Coalesce(q[i]) /\ j <= i)}

\* Mutant of reuse_existing: the queued row found is never reused.
reuse_existing_Never(q, existing) == FALSE

\* reuse_existing = existing_entry is not None and
\*                  existing_entry["status"] == "queued"
reuse_existing(q, existing) ==
    existing # {} /\ \A i \in existing : q[i].status = "queued"

\* existing_entry and existing_entry["status"] == "sent"
already_sent(q, existing) ==
    existing # {} /\ \A i \in existing : q[i].status = "sent"

\* _create_queue_entry: INSERT INTO publish_queue (item_type, item_id,
\* priority, dedup_key) VALUES ('story', ?, 0, ?)
_create_queue_entry(q, s, t) == Append(q, NewRow(s, 0, Null, t))

\* ---------------------------------------------------------------- sender.py

\* The callers of _with_retry.
RetryActions == {"send_text", "edit_text", "reply_text"}

\* What one call of the chat platform does: it returns, it raises
\* TelegramRetryAfter, or it raises another TelegramAPIError / Exception.
Responses == {"ok", "retry_after", "api_error"}

\* exc.retry_after: 0 stands for a missing one.
RetryAfterValues == {0, MaxRetryAfter}

\* random.uniform(0, retry_after * 0.3), in whole seconds
Jitters(retry_after) == 0..((3 * retry_after) \div 10)

RetryIdle ==
    [pc |-> "idle", action |-> "", attempt |-> 0, resps |-> <<>>, sleeps |-> 0,
     wait_for |-> 0, slept |-> 0, result |-> ""]

\* Mutant of the loop test: one attempt more.
RetryMayAttempt_OneMore(attempt) == attempt <= MAX_ATTEMPTS

\* while attempt < MAX_ATTEMPTS
RetryMayAttempt(attempt) == attempt < MAX_ATTEMPTS

\* send_text, edit_text or reply_text entering _with_retry(action, factory)
RetryStart(action) ==
    /\ retry.pc = "idle"
    /\ retry' = [RetryIdle EXCEPT !.pc = "loop", !.action = action]
    /\ UNCHANGED <<now, queue, chat, publish_map, config, creds, last, sched, publish_edits, admin, pipeVars>>

\* One turn of the loop: attempt += 1 and await coroutine_factory().
RetryAttempt(resp, ra, jitter) ==
    /\ retry.pc = "loop"
    /\ RetryMayAttempt(retry.attempt)
    /\ LET attempt == retry.attempt + 1
           retry_after == IF ra # 0 THEN ra ELSE attempt * 2
       IN  /\ (resp = "retry_after") \/ (ra = 0 /\ jitter = 0)
           /\ jitter \in Jitters(retry_after)
           /\ retry' = [retry EXCEPT
                   !.attempt = attempt,
                   !.resps = Append(@, resp),
                   !.wait_for = IF resp = "retry_after" THEN retry_after + jitter ELSE 0,
                   !.pc = IF resp = "retry_after" THEN "sleep" ELSE "done",
                   !.result = IF resp = "ok" THEN "ok"
                              ELSE IF resp = "api_error" THEN "raised" ELSE ""]
    /\ UNCHANGED <<now, queue, chat, publish_map, config, creds, last, sched, publish_edits, admin, pipeVars>>

\* await asyncio.sleep(wait_for)
RetrySleep ==
    /\ retry.pc = "sleep"
    /\ retry' = [retry EXCEPT !.pc = "loop", !.sleeps = @ + 1,
                              !.slept = @ + retry.wait_for, !.wait_for = 0]
    /\ UNCHANGED <<now, queue, chat, publish_map, config, creds, last, sched, publish_edits, admin, pipeVars>>

\* The loop ends: raise RuntimeError(f"Failed to {action}")
RetryExhaust ==
    /\ retry.pc = "loop"
    /\ ~RetryMayAttempt(retry.attempt)
    /\ retry' = [retry EXCEPT !.pc = "done", !.result = "exhausted"]
    /\ UNCHANGED <<now, queue, chat, publish_map, config, creds, last, sched, publish_edits, admin, pipeVars>>

\* The caller has the result or the exception; the next call may start.
RetryReturn ==
    /\ retry.pc = "done"
    /\ retry' = RetryIdle
    /\ UNCHANGED <<now, queue, chat, publish_map, config, creds, last, sched, publish_edits, admin, pipeVars>>

\* ------------------------------------------------------------ the calls

\* What a call leaves in `last`: the operation, its arguments (story: the
\* story id of a manual publish, the selected stories of an enqueue), the
\* queue row it worked on and its outcome.
Call(op, story, dry_run, row, result) ==
    [op |-> op, story |-> story, dry_run |-> dry_run, row |-> row, result |-> result,
     text |-> Null]

\* Sequences without repetition over Stories, the result of
\* SELECT id FROM stories WHERE updated_at >= ? ORDER BY updated_at DESC LIMIT ?
StorySelections ==
    {<<>>} \cup {<<a>> : a \in Stories}
           \cup {<<a, b>> : <<a, b>> \in {x \in Stories \X Stories : x[1] # x[2]}}

\* The instants at which calls are made and dispatches end: the first
\* half-hours of day 0, and as many half-hours `days` days later, from the
\* first instant at which a row of midnight, day 0, has left a window of `days`
\* days.
HalfHour == SecPerHour \div 2
Instants(days, slots) ==
    {k * HalfHour : k \in 0..slots}
        \cup {days * SecPerDay + (k + 1) * HalfHour : k \in 0..slots}

\* The time a dispatch may take (the chat calls, their retries and sleeps).
DispatchDelays == {0, HalfHour}

Enqueue_DryInserts(ss, priority, scheduled_at, dry_run) ==
    /\ queue' = EnqueueLoop(queue, ss, priority, scheduled_at, now, config)
    /\ last' = Call("enqueue", ss, dry_run, Null, "")
    /\ UNCHANGED <<now, chat, publish_map, config, creds, sched, retry, publish_edits, admin, pipeVars>>

\* enqueue_recent_stories(limit, since_days, priority, scheduled_at, dry_run)
Enqueue(ss, priority, scheduled_at, dry_run) ==
    LET q1 == EnqueueLoop(queue, ss, priority, scheduled_at, now, config)
    IN  /\ queue' = IF dry_run THEN queue ELSE q1
        /\ last' = Call("enqueue", ss, dry_run, Null, "")
        /\ UNCHANGED <<now, chat, publish_map, config, creds, sched, retry, publish_edits, admin, pipeVars>>

\* process_once(dry_run, mode, config) reaching its dispatch.  id: the row
\* _dequeue_next returns; io_ok, fail_at: what rendering and the chat platform
\* do; d: the time the dispatch takes.
ProcessOnce(dry_run, mode, id, io_ok, fail_at, d) ==
    LET row == queue[id]
        reason == _check_rate_limits(queue, now, config)
        out == publish_story(chat, publish_map, row.item_id, mode, io_ok, fail_at, id, now + d)
    IN  /\ ~(~dry_run /\ _is_quiet(now, config.quiet_hours))
        /\ id \in _dequeue_next(queue, now)
        /\ dry_run \/ reason = ""
        /\ IF dry_run
           THEN /\ d = 0 /\ fail_at = 0 /\ io_ok
                /\ last' = Call("process_once", Null, TRUE, Some(id), "dry")
                /\ UNCHANGED <<now, queue, chat, publish_map>>
           ELSE IF ~creds
           THEN /\ d = 0 /\ fail_at = 0 /\ io_ok
                /\ queue' = mark_status(queue, id, "error", Some("dispatch failed"), Null, now)
                /\ last' = Call("process_once", Null, FALSE, Some(id), "error")
                /\ UNCHANGED <<now, chat, publish_map>>
           ELSE /\ now' = now + d
                /\ chat' = out.chat
                /\ publish_map' = out.pm
                /\ queue' = IF out.raised
                             THEN mark_status(queue, id, "error", Some("exc"), Null, now + d)
                             ELSE mark_status(queue, id, "sent", Null, PrimaryMsg(out.ids), now + d)
                /\ last' = Call("process_once", Null, FALSE, Some(id),
                                IF out.raised THEN "error" ELSE "sent")
        /\ UNCHANGED <<config, creds, sched, retry, publish_edits, admin, pipeVars>>

\* process_once returning before it dispatches: quiet hours, an empty queue,
\* or a rate limit.
ProcessOnceSkip(dry_run) ==
    LET quiet == ~dry_run /\ _is_quiet(now, config.quiet_hours)
        rows == _dequeue_next(queue, now)
        reason == _check_rate_limits(queue, now, config)
    IN  /\ quiet \/ rows = {} \/ (~dry_run /\ reason # "")
        /\ last' = Call("process_once", Null, dry_run,
                        IF quiet \/ rows = {} THEN Null ELSE Some(CHOOSE i \in rows : TRUE),
                        IF quiet THEN "quiet" ELSE IF rows = {} THEN "empty" ELSE reason)
        /\ UNCHANGED <<now, queue, chat, publish_map, config, creds, sched, retry, publish_edits, admin, pipeVars>>

\* publish_story_now(story_id, dry_run, mode) returning without a dispatch:
\* the preview, the dedup hit on a sent row, the missing credentials.
PublishStoryNowSkip(s, dry_run) ==
    LET existing == _fetch_recent_queue_entry(queue, s, now, config)
        sent == already_sent(queue, existing)
    IN  /\ dry_run \/ sent \/ ~creds
        /\ last' = Call("publish_story_now", Some(s), dry_run,
                        IF existing = {} THEN Null ELSE Some(CHOOSE i \in existing : TRUE),
                        IF dry_run THEN "preview"
                        ELSE IF sent THEN "already" ELSE "no_creds")
        /\ UNCHANGED <<now, queue, chat, publish_map, config, creds, sched, retry, publish_edits, admin, pipeVars>>

\* publish_story_now(story_id, dry_run=False, mode) dispatching: it reuses the
\* queued row it found or creates one, sends, and marks the row.
PublishStoryNow(s, mode, io_ok, fail_at, d) ==
    LET existing == _fetch_recent_queue_entry(queue, s, now, config)
        reuse == reuse_existing(queue, existing)
        queue_id == IF reuse THEN CHOOSE i \in existing : TRUE ELSE Len(queue) + 1
        q1 == IF reuse THEN queue ELSE _create_queue_entry(queue, s, now)
        out == publish_story(chat, publish_map, s, mode, io_ok, fail_at, queue_id, now + d)
    IN  /\ creds
        /\ ~already_sent(queue, existing)
        /\ Len(q1) <= MaxRows
        /\ now' = now + d
        /\ chat' = out.chat
        /\ publish_map' = out.pm
        /\ queue' = IF out.raised
                     THEN mark_status(q1, queue_id, "error", Some("exc"), Null, now + d)
                     ELSE mark_status(q1, queue_id, "sent", Null, PrimaryMsg(out.ids), now + d)
        /\ last' = Call("publish_story_now", Some(s), FALSE, Some(queue_id),
                        IF out.raised THEN "error" ELSE "sent")
        /\ UNCHANGED <<config, creds, sched, retry, publish_edits, admin, pipeVars>>

\* The scheduler between two calls of process_once.
Idle == [pc |-> "idle", row |-> Null, k |-> 0, ids |-> <<>>, outcome |-> ""]

\* Time passes between two calls.
Tick(t) ==
    /\ t > now
    /\ now' = t
    /\ last' = Call("tick", Null, FALSE, Null, "")
    /\ UNCHANGED <<queue, chat, publish_map, config, creds, sched, retry, publish_edits, admin, pipeVars>>

\* ------------------------------------------------------ before the publisher

\* ---- publish.py: _split_messages

\* A line is its length without trailing whitespace and whether it has any;
\* a chunk is the lines joined in it: the index of each in the input, the
\* length it has in the chunk, and whether it was cut.
Lines == [len : 0..(SplitLimit + 2), trail : BOOLEAN]
LineInputs == UNION {[1..n -> Lines] : n \in 0..MaxLines}

\* raw_line.rstrip()
Rstrip(raw_line) == raw_line.len

Piece(src, len, cut) == [src |-> src, len |-> len, cut |-> cut]

\* len("\n".join(lines))
RECURSIVE JoinedLength(_)
JoinedLength(pieces) ==
    IF pieces = <<>> THEN 0
    ELSE IF Len(pieces) = 1 THEN pieces[1].len
    ELSE pieces[1].len + 1 + JoinedLength(Tail(pieces))

SplitIdle ==
    [pc |-> "idle", lines |-> <<>>, limit |-> 0, i |-> 0, chunks |-> <<>>,
     current_lines |-> <<>>, current_length |-> 0]

\* _split_messages(lines, limit) is called.
SplitStart(lines, limit) ==
    /\ split.pc = "idle"
    /\ split' = [SplitIdle EXCEPT !.pc = "loop", !.lines = lines, !.limit = limit, !.i = 1]
    /\ UNCHANGED <<botVars, antidup, tags, clusterVars, syncVars, catVars>>

\* current_lines = [line] if line else []
FlushStart(i, line, limit) == IF line = 0 THEN <<>> ELSE <<Piece(i, line, FALSE)>>

\* One turn of `for raw_line in lines`.
SplitLine ==
    LET i == split.i
        line == Rstrip(split.lines[i])
        limit == split.limit
        sep == IF split.current_lines # <<>> THEN 1 ELSE 0
        candidate_length == split.current_length + sep + line
    IN  /\ split.pc = "loop"
        /\ i <= Len(split.lines)
        /\ split' =
              IF candidate_length > limit /\ split.current_lines # <<>>
              THEN [split EXCEPT !.i = i + 1,
                                 !.chunks = Append(@, split.current_lines),
                                 !.current_lines = FlushStart(i, line, limit),
                                 !.current_length = line]
              ELSE IF split.current_lines # <<>>
              THEN [split EXCEPT !.i = i + 1,
                                 !.current_lines = Append(@, Piece(i, line, FALSE)),
                                 !.current_length = @ + 1 + line]
              ELSE IF line > limit
              THEN [split EXCEPT !.i = i + 1,
                                 !.chunks = Append(@, <<Piece(i, limit, TRUE)>>),
                                 !.current_lines = <<>>,
                                 !.current_length = 0]
              ELSE [split EXCEPT !.i = i + 1,
                                 !.current_lines = <<Piece(i, line, FALSE)>>,
                                 !.current_length = line]
        /\ UNCHANGED <<botVars, antidup, tags, clusterVars, syncVars, catVars>>

\* After the loop: the last chunk, and `return chunks or [""]`.
SplitEnd ==
    /\ split.pc = "loop"
    /\ split.i > Len(split.lines)
    /\ LET chunks == IF split.current_lines # <<>>
                     THEN Append(split.chunks, split.current_lines)
                     ELSE split.chunks
       IN  split' = [split EXCEPT !.pc = "done",
                                  !.chunks = IF chunks = <<>> THEN << <<>> >> ELSE chunks]
    /\ UNCHANGED <<botVars, antidup, tags, clusterVars, syncVars, catVars>>

\* The caller has the chunks.
SplitReturn ==
    /\ split.pc = "done"
    /\ split' = SplitIdle
    /\ UNCHANGED <<botVars, antidup, tags, clusterVars, syncVars, catVars>>

\* ---- cluster/fingerprints.py and cluster/antidup.py

\* A title signature is its pieces between "|" (0: an empty piece); the
\* signatures used: none, all the tokens, and all but the first or the last.
AllTokens == [k \in 1..MaxTokens |-> k]
TitleSigs ==
    {<<>>, <<0>>, AllTokens, SubSeq(AllTokens, 1, MaxTokens - 1), SubSeq(AllTokens, 2, MaxTokens)}

\* An entity signature: None, "" (0), or one of two signatures.
EntitySigs == {Null, Some(0), Some(1), Some(2)}

\* (article_id, title_sig, entity_sig, payload); the id is the position.
Articles == [title_sig : TitleSigs, entity_sig : EntitySigs]
ArticleInputs == UNION {[1..n -> Articles] : n \in 0..MaxArticles}

\* signature_tokens(signature)
signature_tokens(signature) == SelectSeq(signature, LAMBDA piece : piece # 0)

SetOf(seq) == {seq[k] : k \in 1..Len(seq)}

\* A score is a fraction.
Fraction(num, den) == [num |-> num, den |-> den]
AtLeast(x, y) == x.num * y.den >= y.num * x.den

JACCARD_STRICT == Fraction(9, 10)
JACCARD_ENTITY == Fraction(8, 10)

\* Mutant of jaccard: two empty signatures score 0.
jaccard_EmptyZero(a, b) ==
    IF SetOf(a) = {} \/ SetOf(b) = {} THEN Fraction(0, 1)
    ELSE Fraction(Cardinality(SetOf(a) \cap SetOf(b)), Cardinality(SetOf(a) \cup SetOf(b)))

\* jaccard(a, b)
jaccard(a, b) ==
    IF SetOf(a) = {} /\ SetOf(b) = {} THEN Fraction(1, 1)
    ELSE IF SetOf(a) = {} \/ SetOf(b) = {} THEN Fraction(0, 1)
    ELSE Fraction(Cardinality(SetOf(a) \cap SetOf(b)), Cardinality(SetOf(a) \cup SetOf(b)))

\* bool(ref_entity_sig and cand_entity_sig and cand_entity_sig == ref_entity_sig)
EntityMatch(ref_entity_sig, cand_entity_sig) ==
    /\ ref_entity_sig # Null /\ ref_entity_sig # Some(0)
    /\ cand_entity_sig # Null /\ cand_entity_sig # Some(0)
    /\ cand_entity_sig = ref_entity_sig

\* Mutant of is_near_duplicate: the entity match does not lower the threshold.
is_near_duplicate_StrictOnly(ref_title_sig, ref_entity_sig, candidates) ==
    LET Score(k) == jaccard(signature_tokens(ref_title_sig), signature_tokens(candidates[k].title_sig))
        hits == {k \in 1..Len(candidates) : AtLeast(Score(k), JACCARD_STRICT)}
    IN  IF hits = {} THEN Null
        ELSE LET first == CHOOSE k \in hits : \A j \in hits : k <= j
             IN  Some([id |-> candidates[first].id, score |-> Score(first),
                       entity_match |-> FALSE])

\* is_near_duplicate(ref_title_sig, ref_entity_sig, candidates); a candidate
\* is [id, title_sig, entity_sig].  The first candidate that matches, or None.
RECURSIVE is_near_duplicate(_, _, _)
is_near_duplicate(ref_title_sig, ref_entity_sig, candidates) ==
    IF candidates = <<>> THEN Null
    ELSE LET cand == Head(candidates)
             score == jaccard(signature_tokens(ref_title_sig), signature_tokens(cand.title_sig))
             entity_match == EntityMatch(ref_entity_sig, cand.entity_sig)
         IN  IF entity_match /\ AtLeast(score, JACCARD_ENTITY)
             THEN Some([id |-> cand.id, score |-> score, entity_match |-> TRUE])
             ELSE IF AtLeast(score, JACCARD_STRICT)
             THEN Some([id |-> cand.id, score |-> score, entity_match |-> FALSE])
             ELSE is_near_duplicate(ref_title_sig, ref_entity_sig, Tail(candidates))

AntidupIdle == [pc |-> "idle", articles |-> <<>>, i |-> 0, kept |-> <<>>, hidden |-> <<>>]

\* filter_near_duplicates(articles) is called.
FilterStart(articles) ==
    /\ antidup.pc = "idle"
    /\ antidup' = [AntidupIdle EXCEPT !.pc = "loop", !.articles = articles, !.i = 1]
    /\ UNCHANGED <<botVars, split, tags, clusterVars, syncVars, catVars>>

\* One turn of `for article in articles`.
FilterArticle ==
    LET i == antidup.i
        article == antidup.articles[i]
        candidates == [k \in 1..Len(antidup.kept) |->
                          [id |-> antidup.kept[k],
                           title_sig |-> antidup.articles[antidup.kept[k]].title_sig,
                           entity_sig |-> antidup.articles[antidup.kept[k]].entity_sig]]
        duplicate == is_near_duplicate(article.title_sig, article.entity_sig, candidates)
    IN  /\ antidup.pc = "loop"
        /\ i <= Len(antidup.articles)
        /\ antidup' =
              IF duplicate # Null
              THEN [antidup EXCEPT !.i = i + 1,
                                   !.hidden = Append(@, [id |-> i,
                                                         duplicate_of |-> Val(duplicate).id,
                                                         jaccard |-> Val(duplicate).score,
                                                         entity_match |-> Val(duplicate).entity_match])]
              ELSE [antidup EXCEPT !.i = i + 1, !.kept = Append(@, i)]
        /\ UNCHANGED <<botVars, split, tags, clusterVars, syncVars, catVars>>

\* return kept, hidden
FilterEnd ==
    /\ antidup.pc = "loop"
    /\ antidup.i > Len(antidup.articles)
    /\ antidup' = [antidup EXCEPT !.pc = "done"]
    /\ UNCHANGED <<botVars, split, tags, clusterVars, syncVars, catVars>>

\* The caller has the two lists.
FilterReturn ==
    /\ antidup.pc = "done"
    /\ antidup' = AntidupIdle
    /\ UNCHANGED <<botVars, split, tags, clusterVars, syncVars, catVars>>
\* ---- cluster/fingerprints.py: title_signature

\* A token is a number, and the lexicographic order of the tokens that of the
\* numbers; a title is its tokens as tokenize returns them.
Words == 1..(SigTop + 1)
TitleTokens == UNION {[1..n -> Words] : n \in 0..MaxWords}

\* Counter(tokens)[w], and the place of w's first occurrence: a Counter keeps
\* its keys in the order of insertion.
CountOf(tokens, w) == Cardinality({i \in 1..Len(tokens) : tokens[i] = w})
FirstAt(tokens, w) == CHOOSE i \in 1..Len(tokens) : tokens[i] = w /\ \A j \in 1..(i - 1) : tokens[j] # w

\* v comes before w in counter.most_common(): the greater count first, and
\* of equal counts the one inserted first (the sort is stable).
MoreCommon(tokens, v, w) ==
    \/ CountOf(tokens, v) > CountOf(tokens, w)
    \/ CountOf(tokens, v) = CountOf(tokens, w) /\ FirstAt(tokens, v) < FirstAt(tokens, w)

\* sorted(words)
Sorted(words) ==
    CHOOSE seq \in [1..Cardinality(words) -> words] :
        \A a, b \in 1..Cardinality(words) : a < b => seq[a] < seq[b]

\* title_signature(tokens, top): the pieces of the signature between "|"
title_signature(tokens, top) ==
    LET top_tokens == {w \in SetOf(tokens) :
                          Cardinality({v \in SetOf(tokens) : MoreCommon(tokens, v, w)}) < top}
    IN  Sorted(top_tokens)

SigIdle == [pc |-> "idle", tokens |-> <<>>, title_sig |-> <<>>, reordered |-> <<>>,
            reordered_sig |-> <<>>]

\* compute_signatures(title, entities) on a title.
TitleSignature(tokens) ==
    /\ sig.pc = "idle"
    /\ sig' = [SigIdle EXCEPT !.pc = "called", !.tokens = tokens,
                              !.title_sig = title_signature(tokens, SigTop)]
    /\ UNCHANGED <<botVars, split, antidup, tags, clusterVars, syncVars, pairing, assign>>

\* compute_signatures on a title with the same words in another order.
TitleSignatureReordered(order) ==
    /\ sig.pc = "called"
    /\ \E reordered \in {[k \in 1..Len(sig.tokens) |-> sig.tokens[order[k]]]} :
            sig' = [sig EXCEPT !.pc = "compared", !.reordered = reordered,
                               !.reordered_sig = title_signature(reordered, SigTop)]
    /\ UNCHANGED <<botVars, split, antidup, tags, clusterVars, syncVars, pairing, assign>>

\* The caller has the signatures.
SigReturn ==
    /\ sig.pc = "compared"
    /\ sig' = SigIdle
    /\ UNCHANGED <<botVars, split, antidup, tags, clusterVars, syncVars, pairing, assign>>

\* The orders in which the n words of a title may be written.
Orders(n) == {order \in [1..n -> 1..n] : \A a, b \in 1..n : a # b => order[a] # order[b]}

\* ---- categorizer/db_tags.py and categorizer/tag_typing.py

\* A name is a word written in a script with its first letter in a case, or
\* the empty string; two names that differ in case only have the same word
\* and script.
EmptyName == [word |-> "", script |-> "", upper |-> FALSE]
TagNames ==
    {EmptyName} \cup [word : {"zenit"}, script : {"latin"}, upper : BOOLEAN]
                \cup [word : {"spartak"}, script : {"cyrillic"}, upper : BOOLEAN]
\* url: "" (0) or a URL
TagUrls == {0, 1}
\* tag_type as given, and what the heuristic classifier makes of the tag
RawTypes == {"", " Team", "coach"}
Guesses == {"unknown", "player"}
_KNOWN_TYPES == {"sport", "tournament", "team", "player"}

\* _clean_text(raw_type).lower()
CleanLower(raw_type) == IF raw_type = " Team" THEN "team" ELSE raw_type

\* enrich_tag_type(raw_type, name, url, context); guess: the result of
\* guess_tag_type_with_context(name, url, context)
enrich_tag_type(raw_type, guess) ==
    LET raw_clean == IF CleanLower(raw_type) = "" THEN "unknown" ELSE CleanLower(raw_type)
    IN  IF raw_clean \in _KNOWN_TYPES THEN raw_clean
        ELSE IF guess # "unknown" THEN guess ELSE raw_clean

\* name = ? COLLATE NOCASE: SQLite folds the 26 letters of ASCII only.
NOCASE(a, b) == a = b \/ (a.word = b.word /\ a.script = b.script /\ a.script = "latin")

\* Equal but for case, as str.lower() or str.casefold() compare.
SameIgnoringCase(a, b) == a.word = b.word /\ a.script = b.script

\* A row of tags: name TEXT NOT NULL UNIQUE, url TEXT UNIQUE, type TEXT.
TagRow(name, url, type) == [name |-> name, url |-> url, type |-> type]

\* SELECT ... LIMIT 1 without ORDER BY: the row of lowest id, 0 for none
FirstRow(hits) == IF hits = {} THEN 0 ELSE CHOOSE i \in hits : \A j \in hits : i <= j

\* (existing_type or '').strip().lower() or 'unknown'
ExistingTypeClean(type) == IF type = Null \/ Val(type) = "" THEN "unknown" ELSE Val(type)

\* Mutant of the upgrade rule: any type gives way to a new one.
MayUpgrade_Always(tag_type, existing_type) == tag_type # "unknown"

\* tag_type != 'unknown' and existing_type_clean in ('', 'unknown')
MayUpgrade(tag_type, existing_type) ==
    tag_type # "unknown" /\ ExistingTypeClean(existing_type) \in {"", "unknown"}

\* upsert_tag(conn, name=, url=, tag_type=, context=), name and url stripped:
\* the rows it leaves, and (id, created), or raised when the INSERT or UPDATE
\* breaks a constraint of the table.
upsert_tag(rows, name, url, raw_type, guess) ==
    LET tag_type == enrich_tag_type(raw_type, guess)
        by_url == FirstRow({i \in 1..Len(rows) : rows[i].url = Some(url)})
        by_name == FirstRow({i \in 1..Len(rows) : NOCASE(rows[i].name, name)})
        Typed(row) == IF MayUpgrade(tag_type, row.type)
                      THEN [row EXCEPT !.type = Some(tag_type)] ELSE row
        Out(rs, id, created, raised) ==
            [rows |-> rs, id |-> id, created |-> created, raised |-> raised]
    IN  IF by_url # 0
        THEN LET row == rows[by_url]
                 named == IF name # EmptyName /\ row.name = EmptyName
                          THEN [row EXCEPT !.name = name] ELSE row
             IN  IF named.name # row.name /\ \E i \in 1..Len(rows) : rows[i].name = name
                 THEN Out(rows, 0, FALSE, TRUE)
                 ELSE Out([rows EXCEPT ![by_url] = Typed(named)], by_url, FALSE, FALSE)
        ELSE IF by_name # 0
        THEN LET row == rows[by_name]
                 linked == IF url # 0 /\ row.url = Null
                           THEN [row EXCEPT !.url = Some(url)] ELSE row
             IN  Out([rows EXCEPT ![by_name] = Typed(linked)], by_name, FALSE, FALSE)
        ELSE IF name = EmptyName
        THEN Out(rows, 0, FALSE, TRUE)
        ELSE Out(Append(rows, TagRow(name, IF url = 0 THEN Null ELSE Some(url),
                                     IF tag_type = "unknown" THEN Null ELSE Some(tag_type))),
                 Len(rows) + 1, TRUE, FALSE)

\* The table, and the last call of upsert_tag with what it returned.
NoTags == [rows |-> <<>>, call |-> Null]

\* One call of upsert_tag.
UpsertTag(name, url, raw_type, guess) ==
    \E out \in {upsert_tag(tags.rows, name, url, raw_type, guess)} :
        /\ Len(out.rows) <= MaxTags
        /\ tags' = [rows |-> out.rows,
                    call |-> Some([name |-> name, url |-> url,
                                   tag_type |-> enrich_tag_type(raw_type, guess), id |-> out.id,
                                   created |-> out.created, raised |-> out.raised])]
        /\ UNCHANGED <<botVars, split, antidup, clusterVars, syncVars, catVars>>

\* ---- cluster/build.py

\* Time here is in whole hours.  An article: the one word of its title, its
\* tags of type sport, and COALESCE(published, published_at, created_at); its
\* id is its position.  Articles arrive in the order they are published.
Titles == {1, 2}
SportSets == {{1}}
Gaps == {1, 30}
SinceDays == {2}
Limits == {2, 100}
JACCARD_THRESHOLD == Fraction(6, 10)

NoNews == [articles |-> <<>>, clock |-> 0]

\* The synchroniser stores a new article, `gap` hours after the one before.
NewsArrives(title, sports, gap) ==
    /\ build.pc = "idle"
    /\ Len(news.articles) < MaxNews
    /\ news' = [articles |-> Append(news.articles,
                                    [title |-> title, sports |-> sports,
                                     published |-> news.clock + gap]),
                clock |-> news.clock + gap]
    /\ UNCHANGED <<botVars, split, antidup, tags, stories, story_articles, build, rival, syncVars, catVars>>

\* The ids of a set, highest first.
RECURSIVE Descending(_)
Descending(ids) ==
    IF ids = {} THEN <<>>
    ELSE LET top == CHOOSE i \in ids : \A j \in ids : j <= i
         IN  <<top>> \o Descending(ids \ {top})

\* tokenize_title(title)
tokenize_title(title) == {title}

\* NewsItem, as fetch_news builds it
NewsItem(articles, id) ==
    [news_id |-> id, tokens |-> tokenize_title(articles[id].title),
     published |-> Some(articles[id].published), entities |-> articles[id].sports,
     sports |-> articles[id].sports, tournaments |-> {}]

\* fetch_news(conn, since_days, limit): the ids of the newest `limit`
\* articles of the window, newest first
fetch_news(articles, clock, since_days, limit) ==
    LET window == {i \in 1..Len(articles) :
                      articles[i].published >= clock - since_days * HoursPerDay}
        ordered == Descending(window)
    IN  IF Len(ordered) <= limit THEN ordered ELSE SubSeq(ordered, 1, limit)

\* jaccard_similarity(tokens_a, tokens_b)
jaccard_similarity(tokens_a, tokens_b) ==
    IF tokens_a = {} \/ tokens_b = {} THEN Fraction(0, 1)
    ELSE Fraction(Cardinality(tokens_a \cap tokens_b), Cardinality(tokens_a \cup tokens_b))

Distance(x, y) == IF x >= y THEN x - y ELSE y - x

\* Mutant of evaluate_pair: one condition is enough.
evaluate_pair_One(a, b) ==
    LET cond_title == AtLeast(jaccard_similarity(a.tokens, b.tokens), JACCARD_THRESHOLD)
        entities_overlap == (a.entities \cap b.entities) # {}
        cond_time == /\ a.published # Null /\ b.published # Null
                     /\ Distance(Val(a.published), Val(b.published)) <= TIME_DELTA_LIMIT
        One(c) == IF c THEN 1 ELSE 0
    IN  One(cond_title) + One(entities_overlap) + One(cond_time) >= 1

\* evaluate_pair(a, b): at least two of the three conditions; published is
\* None when parse_timestamp could not read the column
evaluate_pair(a, b) ==
    LET cond_title == AtLeast(jaccard_similarity(a.tokens, b.tokens), JACCARD_THRESHOLD)
        entities_overlap == (a.entities \cap b.entities) # {}
        cond_time == /\ a.published # Null /\ b.published # Null
                     /\ Distance(Val(a.published), Val(b.published)) <= TIME_DELTA_LIMIT
        One(c) == IF c THEN 1 ELSE 0
    IN  One(cond_title) + One(entities_overlap) + One(cond_time) >= 2

\* union_clusters: a pair is evaluated when the two share a group (a sport
\* or tournament tag, or having none), and united when it matches.
United(a, b) ==
    /\ \/ (a.sports \cup a.tournaments) \cap (b.sports \cup b.tournaments) # {}
       \/ (a.sports \cup a.tournaments) = {} /\ (b.sports \cup b.tournaments) = {}
    /\ evaluate_pair(a, b)

\* UnionFind: the component of the items united, directly or through others
RECURSIVE Component(_, _, _)
Component(articles, ids, comp) ==
    LET more == comp \cup {b \in ids : \E a \in comp :
                               United(NewsItem(articles, a), NewsItem(articles, b))}
    IN  IF more = comp THEN comp ELSE Component(articles, ids, more)

\* Mutant of the size a cluster must have.
IsCluster_Single(component) == Cardinality(component) >= 1

\* if len(cluster) >= 2
IsCluster(component) == Cardinality(component) >= 2

\* clusters.sort(key=len, reverse=True), a stable sort of the components in
\* the order in which the items, newest first, reach them
RECURSIVE SortClusters(_)
SortClusters(comps) ==
    IF comps = {} THEN <<>>
    ELSE LET Newest(c) == CHOOSE i \in c : \A j \in c : j <= i
             first == CHOOSE c \in comps : \A d \in comps :
                          \/ Cardinality(c) > Cardinality(d)
                          \/ Cardinality(c) = Cardinality(d) /\ Newest(c) >= Newest(d)
         IN  <<Descending(first)>> \o SortClusters(comps \ {first})

\* build_clusters(items, union_find): each cluster newest first
build_clusters(articles, items) ==
    LET ids == SetOf(items)
        comps == {Component(articles, ids, {a}) : a \in ids}
    IN  SortClusters({c \in comps : IsCluster(c)})

\* ---- cluster/build.py: union_clusters and build_clusters on the UnionFind

\* The items fetch_news hands over: the news_id is the position; tags: none,
\* a team (3), a sport (1), or the sport and a tournament (2); a title of one
\* word and the hour of publication: title 1 at hour 0, at hour 7 or with no
\* time that parse_timestamp could read, or title 2 at hour 0.
ItemTags ==
    {[sports |-> {}, tournaments |-> {}, entities |-> {}],
     [sports |-> {}, tournaments |-> {}, entities |-> {3}],
     [sports |-> {1}, tournaments |-> {}, entities |-> {1}],
     [sports |-> {1}, tournaments |-> {2}, entities |-> {1, 2}]}
ItemTitles ==
    {[title |-> 1, published |-> Some(0)],
     [title |-> 1, published |-> Some(TIME_DELTA_LIMIT + 1)],
     [title |-> 1, published |-> Null],
     [title |-> 2, published |-> Some(0)]}
Items ==
    {[tokens |-> tokenize_title(h.title), published |-> h.published, entities |-> t.entities,
      sports |-> t.sports, tournaments |-> t.tournaments] : h \in ItemTitles, t \in ItemTags}
ItemInputs == UNION {[1..n -> Items] : n \in 0..MaxUnion}

\* UnionFind(nodes)
UnionFind(nodes) == [parent |-> [n \in nodes |-> n], rank |-> [n \in nodes |-> 0]]

\* What find(node) returns: the end of the chain of parents.
RECURSIVE Root(_, _)
Root(parent, node) == IF parent[node] = node THEN node ELSE Root(parent, parent[node])

\* The nodes find(node) goes through before it reaches the root.
RECURSIVE PathTo(_, _)
PathTo(parent, node) ==
    IF parent[node] = node THEN {} ELSE {node} \cup PathTo(parent, parent[node])

\* find(node): the UnionFind after the call, every node of the path now a
\* child of the root
find(uf, node) ==
    [uf EXCEPT !.parent = [n \in DOMAIN uf.parent |->
                              IF n \in PathTo(uf.parent, node) THEN Root(uf.parent, node)
                              ELSE uf.parent[n]]]

\* union(a, b)
union(uf, a, b) ==
    LET uf_a == find(uf, a)
        root_a == Root(uf.parent, a)
        uf_b == find(uf_a, b)
        root_b == Root(uf_a.parent, b)
    IN  IF root_a = root_b THEN uf_b
        ELSE IF uf_b.rank[root_a] < uf_b.rank[root_b]
        THEN [uf_b EXCEPT !.parent[root_a] = root_b]
        ELSE IF uf_b.rank[root_a] > uf_b.rank[root_b]
        THEN [uf_b EXCEPT !.parent[root_b] = root_a]
        ELSE [uf_b EXCEPT !.parent[root_b] = root_a, !.rank[root_a] = @ + 1]

\* The keys an item is filed under in `groups`; None is 0.
GroupKeysOf(item) ==
    IF item.sports \cup item.tournaments = {} THEN {0} ELSE item.sports \cup item.tournaments

\* groups.values(): the groups in the order their keys were inserted, each
\* the ids of its items in the order of the items
Groups(items) ==
    LET keys == UNION {GroupKeysOf(items[i]) : i \in 1..Len(items)}
        FirstWith(key) == CHOOSE i \in 1..Len(items) :
                              /\ key \in GroupKeysOf(items[i])
                              /\ \A j \in 1..(i - 1) : key \notin GroupKeysOf(items[j])
        order == CHOOSE seq \in [1..Cardinality(keys) -> keys] :
                    \A a, b \in 1..Cardinality(keys) : a < b =>
                        \/ FirstWith(seq[a]) < FirstWith(seq[b])
                        \/ FirstWith(seq[a]) = FirstWith(seq[b]) /\ seq[a] < seq[b]
    IN  [g \in 1..Cardinality(keys) |->
            Sorted({i \in 1..Len(items) : order[g] \in GroupKeysOf(items[i])})]

\* itertools.combinations(news_ids, 2)
RECURSIVE Combinations(_)
Combinations(news_ids) ==
    IF Len(news_ids) < 2 THEN <<>>
    ELSE [k \in 1..(Len(news_ids) - 1) |-> <<news_ids[1], news_ids[k + 1]>>]
            \o Combinations(Tail(news_ids))

\* The pairs of all groups, in the order in which union_clusters meets them.
RECURSIVE PairsOf(_)
PairsOf(groups) ==
    IF groups = <<>> THEN <<>> ELSE Combinations(Head(groups)) \o PairsOf(Tail(groups))

\* build_clusters(items, union_find) on that UnionFind: the components by
\* root in the order in which the items reach them, those of two items or
\* more, the longer ones first (a stable sort); each is the set of its ids
ClustersByRoot(items, uf) ==
    LET roots == {Root(uf.parent, i) : i \in 1..Len(items)}
        Of(root) == {i \in 1..Len(items) : Root(uf.parent, i) = root}
        First(root) == CHOOSE i \in Of(root) : \A j \in Of(root) : i <= j
        kept == {root \in roots : IsCluster(Of(root))}
        order == CHOOSE seq \in [1..Cardinality(kept) -> kept] :
                    \A a, b \in 1..Cardinality(kept) : a < b =>
                        \/ Cardinality(Of(seq[a])) > Cardinality(Of(seq[b]))
                        \/ /\ Cardinality(Of(seq[a])) = Cardinality(Of(seq[b]))
                           /\ First(seq[a]) < First(seq[b])
    IN  [c \in 1..Cardinality(kept) |-> Of(order[c])]

PairingIdle ==
    [pc |-> "idle", items |-> <<>>, pairs |-> <<>>, seen_pairs |-> {},
     union_find |-> UnionFind({}), clusters |-> <<>>]

\* union_clusters(items) is called: the UnionFind and the groups are made.
UnionStart(items) ==
    /\ pairing.pc = "idle"
    /\ pairing' = [PairingIdle EXCEPT !.pc = "pairs", !.items = items,
                                      !.pairs = PairsOf(Groups(items)),
                                      !.union_find = UnionFind(1..Len(items))]
    /\ UNCHANGED <<botVars, split, antidup, tags, clusterVars, syncVars, sig, assign>>

\* One turn of the loop over the pairs: a pair seen before is skipped, a pair
\* that matches is united.
UnionPair ==
    /\ pairing.pc = "pairs"
    /\ pairing.pairs # <<>>
    /\ LET left == Head(pairing.pairs)[1]
           right == Head(pairing.pairs)[2]
           pair == {left, right}
       IN  IF pair \in pairing.seen_pairs
           THEN pairing' = [pairing EXCEPT !.pairs = Tail(@)]
           ELSE IF evaluate_pair(pairing.items[left], pairing.items[right])
           THEN \E out \in {union(pairing.union_find, left, right)} :
                    pairing' = [pairing EXCEPT !.pairs = Tail(@),
                                               !.seen_pairs = @ \cup {pair},
                                               !.union_find = out]
           ELSE pairing' = [pairing EXCEPT !.pairs = Tail(@), !.seen_pairs = @ \cup {pair}]
    /\ UNCHANGED <<botVars, split, antidup, tags, clusterVars, syncVars, sig, assign>>

\* union_clusters returns, and clusters = build_clusters(items, union_find)
BuildClusters ==
    /\ pairing.pc = "pairs"
    /\ pairing.pairs = <<>>
    /\ pairing' = [pairing EXCEPT !.pc = "done",
                                  !.clusters = ClustersByRoot(pairing.items, pairing.union_find)]
    /\ UNCHANGED <<botVars, split, antidup, tags, clusterVars, syncVars, sig, assign>>

\* process_clusters has the clusters.
UnionReturn ==
    /\ pairing.pc = "done"
    /\ pairing' = PairingIdle
    /\ UNCHANGED <<botVars, split, antidup, tags, clusterVars, syncVars, sig, assign>>

\* ---- categorizer/alias_mapper.py: assign_entities_for_article, one article

_ALLOWED_TYPES == <<"sport", "tournament", "team", "player">>
EntityTypes == {_ALLOWED_TYPES[k] : k \in 1..Len(_ALLOWED_TYPES)}

\* A row of tag_rows as the loop sees it: normalize_tag_type(raw_type), and
\* what resolve_entity finds for the name: an entity id or None.
EntityIds == {1, 2}
ResolvedTags ==
    [type : EntityTypes \cup {"other"}, entity : {Null} \cup {Some(e) : e \in EntityIds}]
TagRowInputs == UNION {[1..n -> ResolvedTags] : n \in 0..MaxTagRows}

NoValues == [t \in EntityTypes |-> Null]

\* resolved[etype]: the entity ids of the rows of the type that resolve, in
\* the order of the rows
RECURSIVE Resolved(_, _)
Resolved(tag_rows, etype) ==
    IF tag_rows = <<>> THEN <<>>
    ELSE (IF Head(tag_rows).type = etype /\ Head(tag_rows).entity # Null
          THEN <<Val(Head(tag_rows).entity)>> ELSE <<>>) \o Resolved(Tail(tag_rows), etype)

\* result["unknown"]: the rows of an allowed type that do not resolve
RECURSIVE Unknown(_)
Unknown(tag_rows) ==
    IF tag_rows = <<>> THEN <<>>
    ELSE (IF Head(tag_rows).type \in EntityTypes /\ Head(tag_rows).entity = Null
          THEN <<Head(tag_rows).type>> ELSE <<>>) \o Unknown(Tail(tag_rows))

\* unique_ids: the candidates without repetitions, in their order
RECURSIVE UniqueIds(_)
UniqueIds(candidates) ==
    IF candidates = <<>> THEN <<>>
    ELSE LET front == UniqueIds(SubSeq(candidates, 1, Len(candidates) - 1))
             id == candidates[Len(candidates)]
         IN  IF id \in SetOf(front) THEN front ELSE Append(front, id)

\* A slot that always takes the first candidate when the prior assignment is
\* not among the candidates
FinalId_FirstCandidate(prefer_existing, existing, candidates) ==
    LET unique_ids == UniqueIds(candidates)
    IN  IF candidates = <<>> THEN [final |-> existing, conflict |-> FALSE]
        ELSE IF prefer_existing /\ existing # Null /\ Val(existing) \in SetOf(unique_ids)
        THEN [final |-> existing, conflict |-> FALSE]
        ELSE [final |-> Some(unique_ids[1]), conflict |-> Len(unique_ids) > 1]

\* One turn of `for etype in _ALLOWED_TYPES`: final_ids[etype], and whether
\* an entry is appended to result["conflicts"]
FinalId(prefer_existing, existing, candidates) ==
    LET unique_ids == UniqueIds(candidates)
    IN  IF candidates = <<>> THEN [final |-> existing, conflict |-> FALSE]
        ELSE IF prefer_existing /\ existing # Null
        THEN [final |-> existing, conflict |-> Val(existing) \notin SetOf(unique_ids)]
        ELSE [final |-> Some(unique_ids[1]), conflict |-> Len(unique_ids) > 1]

\* result["conflicts"]: the entries in the order of _ALLOWED_TYPES
RECURSIVE ConflictsOf(_, _, _, _)
ConflictsOf(types, prefer_existing, existing_values, tag_rows) ==
    IF types = <<>> THEN <<>>
    ELSE LET etype == Head(types)
             candidates == Resolved(tag_rows, etype)
         IN  (IF FinalId(prefer_existing, existing_values[etype], candidates).conflict
              THEN <<[type |-> etype, entity_ids |-> UniqueIds(candidates)]>> ELSE <<>>)
                \o ConflictsOf(Tail(types), prefer_existing, existing_values, tag_rows)

\* The row of news_entity_assignments after the INSERT OR REPLACE or the
\* UPDATE at the end; row: the row before, None when there is none.
WriteAssignments(row, final_ids, prefer_existing) ==
    IF \A t \in EntityTypes : final_ids[t] = Null THEN row
    ELSE IF row = Null THEN Some(final_ids)
    ELSE Some([t \in EntityTypes |->
                 IF prefer_existing /\ Val(row)[t] # Null THEN Val(row)[t] ELSE final_ids[t]])

AssignIdle ==
    [pc |-> "idle", row |-> Null, prefer_existing |-> FALSE, existing_values |-> NoValues,
     resolved |-> [t \in EntityTypes |-> <<>>], conflicts |-> <<>>, unknown |-> <<>>,
     assigned |-> [t \in EntityTypes |-> 0]]

\* assign_entities_for_article(conn, news_id=..., prefer_existing=...) for
\* the article; with no tag rows it returns the empty result.
AssignEntities(tag_rows, prefer_existing) ==
    /\ assign.pc = "idle"
    /\ LET existing_values == IF assign.row = Null THEN NoValues ELSE Val(assign.row)
           resolved == [t \in EntityTypes |-> Resolved(tag_rows, t)]
           final_ids == [t \in EntityTypes |->
                            FinalId(prefer_existing, existing_values[t], resolved[t]).final]
       IN  assign' =
             IF tag_rows = <<>>
             THEN [AssignIdle EXCEPT !.pc = "done", !.row = assign.row,
                                     !.prefer_existing = prefer_existing]
             ELSE [pc |-> "done",
                   row |-> WriteAssignments(assign.row, final_ids, prefer_existing),
                   prefer_existing |-> prefer_existing,
                   existing_values |-> existing_values,
                   resolved |-> resolved,
                   conflicts |-> ConflictsOf(_ALLOWED_TYPES, prefer_existing,
                                             existing_values, tag_rows),
                   unknown |-> Unknown(tag_rows),
                   assigned |-> [t \in EntityTypes |-> IF final_ids[t] # Null THEN 1 ELSE 0]]
    /\ UNCHANGED <<botVars, split, antidup, tags, clusterVars, syncVars, sig, pairing>>

\* The caller has the result.
AssignReturn ==
    /\ assign.pc = "done"
    /\ assign' = [AssignIdle EXCEPT !.row = assign.row]
    /\ UNCHANGED <<botVars, split, antidup, tags, clusterVars, syncVars, sig, pairing>>

\* load_existing_assignments(conn, news_ids)
load_existing_assignments(links, news_ids) ==
    [a \in news_ids |-> {l[1] : l \in {m \in links : m[2] = a}}]

\* The fingerprint of an article: title_sig and entity_sig
Fingerprint(article) ==
    [title_sig |-> <<article.title>>,
     entity_sig |-> IF article.sports = {} THEN Null
                    ELSE Some(CHOOSE t \in article.sports : TRUE)]

\* _find_near_duplicate_story(conn, news_id): the rows come in no stated
\* order and the first candidate that matches decides, so the result is the
\* story of any linked article that matches, of those updated in the
\* lookback; none when there is no such article.
NearDuplicateStories(articles, sts, links, news_id, clock) ==
    LET ref == Fingerprint(articles[news_id])
    IN  {l[1] : l \in {m \in links :
            /\ m[2] # news_id
            /\ sts[m[1]].updated_at >= clock - LookbackHours
            /\ is_near_duplicate(ref.title_sig, ref.entity_sig,
                                 <<[id |-> m[2],
                                    title_sig |-> Fingerprint(articles[m[2]]).title_sig,
                                    entity_sig |-> Fingerprint(articles[m[2]]).entity_sig]>>) # Null}}

Least(ids) == CHOOSE i \in ids : \A j \in ids : i <= j

RECURSIVE SharedStories(_, _)
SharedStories(cluster, assignments) ==
    IF Len(cluster) = 1 THEN assignments[cluster[1]]
    ELSE assignments[cluster[1]] \cap SharedStories(Tail(cluster), assignments)

\* ensure_story_exists taking the lowest id of all the members' stories
ensure_story_exists_LowestOfAll(cluster, assignments, dry_run, near_dup, next_id) ==
    LET shared == SharedStories(cluster, assignments)
        all == UNION {assignments[cluster[k]] : k \in 1..Len(cluster)}
    IN  IF near_dup # Null THEN [story_id |-> near_dup, created |-> FALSE]
        ELSE IF shared # {} THEN [story_id |-> Some(Least(shared)), created |-> FALSE]
        ELSE IF all # {} THEN [story_id |-> Some(Least(all)), created |-> FALSE]
        ELSE IF dry_run THEN [story_id |-> Null, created |-> TRUE]
        ELSE [story_id |-> Some(next_id), created |-> TRUE]

\* ensure_story_exists(conn, cluster, assignments, dry_run); near_dup: what
\* _find_near_duplicate_story returned for cluster[0]; next_id: the id a new
\* row of stories gets.  The story id (None in a dry run) and `created`.
ensure_story_exists(cluster, assignments, dry_run, near_dup, next_id) ==
    LET shared == SharedStories(cluster, assignments)
        linked == {k \in 1..Len(cluster) : assignments[cluster[k]] # {}}
    IN  IF near_dup # Null THEN [story_id |-> near_dup, created |-> FALSE]
        ELSE IF shared # {} THEN [story_id |-> Some(Least(shared)), created |-> FALSE]
        ELSE IF linked # {}
        THEN [story_id |-> Some(Least(assignments[cluster[Least(linked)]])), created |-> FALSE]
        ELSE IF dry_run THEN [story_id |-> Null, created |-> TRUE]
        ELSE [story_id |-> Some(next_id), created |-> TRUE]

\* The constraint of story_articles: (story_id, news_id) is unique.
Conflicts(links, story_id, news_id) == <<story_id, news_id>> \in links

\* link_cluster: the members of the cluster that get a link to the story
\* (INSERT OR IGNORE INTO story_articles)
ToLink(cluster, story_id, assignments, links) ==
    {a \in SetOf(cluster) : story_id \notin assignments[a] /\ ~Conflicts(links, story_id, a)}

BuildIdle ==
    [pc |-> "idle", dry_run |-> FALSE, clusters |-> <<>>, k |-> 0, assignments |-> <<>>,
     new_stories |-> 0, links_created |-> 0]

\* run(since_days, limit, dry_run) up to process_clusters: fetch_news,
\* union_clusters, build_clusters, load_existing_assignments.  With no items
\* or no clusters the run returns at once.
BuildRun(since_days, limit, dry_run) ==
    /\ build.pc = "idle"
    /\ \E items \in {fetch_news(news.articles, news.clock, since_days, limit)} :
         \E clusters \in {build_clusters(news.articles, items)} :
            build' = IF clusters = <<>>
                     THEN BuildIdle
                     ELSE [BuildIdle EXCEPT
                              !.pc = "clusters", !.dry_run = dry_run,
                              !.clusters = clusters, !.k = 1,
                              !.assignments = load_existing_assignments(story_articles,
                                                                        SetOf(items))]
    /\ UNCHANGED <<botVars, split, antidup, tags, news, stories, story_articles, rival, syncVars, catVars>>

\* One turn of process_clusters: ensure_story_exists and link_cluster for
\* the next cluster.  In a dry run the story id is a synthetic negative one
\* and nothing is written.
BuildCluster ==
    LET cluster == build.clusters[build.k]
        found == NearDuplicateStories(news.articles, stories, story_articles,
                                      cluster[1], news.clock)
    IN  /\ build.pc = "clusters"
        /\ \E near_dup \in IF found = {} THEN {Null} ELSE {Some(s) : s \in found} :
             \E story \in {ensure_story_exists(cluster, build.assignments, build.dry_run,
                                               near_dup, Len(stories) + 1)} :
                LET story_id == IF story.story_id = Null THEN 0 - build.k
                                ELSE Val(story.story_id)
                    to_link == ToLink(cluster, story_id, build.assignments, story_articles)
                    created == IF story.created /\ ~build.dry_run
                               THEN Append(stories, [created_at |-> news.clock,
                                                     updated_at |-> news.clock])
                               ELSE stories
                IN  /\ stories' = IF ~build.dry_run /\ to_link # {}
                                   THEN [created EXCEPT ![story_id].updated_at = news.clock]
                                   ELSE created
                    /\ story_articles' = IF build.dry_run THEN story_articles
                                          ELSE story_articles \cup {<<story_id, a>> : a \in to_link}
                    /\ build' = [build EXCEPT
                          !.k = @ + 1,
                          !.pc = IF build.k = Len(build.clusters) THEN "commit" ELSE "clusters",
                          !.assignments = [a \in DOMAIN @ |->
                                              IF a \in to_link THEN @[a] \cup {story_id} ELSE @[a]],
                          !.new_stories = @ + (IF story.created THEN 1 ELSE 0),
                          !.links_created = @ + Cardinality(to_link)]
        /\ UNCHANGED <<botVars, split, antidup, tags, news, rival, syncVars, catVars>>

\* run after process_clusters: conn.commit() when something was written,
\* and the return.
BuildCommit ==
    /\ build.pc = "commit"
    /\ build' = BuildIdle
    /\ UNCHANGED <<botVars, split, antidup, tags, news, stories, story_articles, rival, syncVars, catVars>>

\* A second invocation of build.py while the first one runs: the same run(),
\* on its own connection.
RivalRun(since_days, limit, dry_run) ==
    /\ rival.pc = "idle"
    /\ \E items \in {fetch_news(news.articles, news.clock, since_days, limit)} :
         \E clusters \in {build_clusters(news.articles, items)} :
            rival' = IF clusters = <<>>
                     THEN BuildIdle
                     ELSE [BuildIdle EXCEPT
                              !.pc = "clusters", !.dry_run = dry_run,
                              !.clusters = clusters, !.k = 1,
                              !.assignments = load_existing_assignments(story_articles,
                                                                        SetOf(items))]
    /\ UNCHANGED <<botVars, split, antidup, tags, news, stories, story_articles, build, syncVars, catVars>>

\* One turn of process_clusters in the second run.
RivalCluster ==
    LET cluster == rival.clusters[rival.k]
        found == NearDuplicateStories(news.articles, stories, story_articles,
                                      cluster[1], news.clock)
    IN  /\ rival.pc = "clusters"
        /\ \E near_dup \in IF found = {} THEN {Null} ELSE {Some(s) : s \in found} :
             \E story \in {ensure_story_exists(cluster, rival.assignments, rival.dry_run,
                                               near_dup, Len(stories) + 1)} :
                LET story_id == IF story.story_id = Null THEN 0 - rival.k
                                ELSE Val(story.story_id)
                    to_link == ToLink(cluster, story_id, rival.assignments, story_articles)
                    created == IF story.created /\ ~rival.dry_run
                               THEN Append(stories, [created_at |-> news.clock,
                                                     updated_at |-> news.clock])
                               ELSE stories
                IN  /\ stories' = IF ~rival.dry_run /\ to_link # {}
                                   THEN [created EXCEPT ![story_id].updated_at = news.clock]
                                   ELSE created
                    /\ story_articles' = IF rival.dry_run THEN story_articles
                                          ELSE story_articles \cup {<<story_id, a>> : a \in to_link}
                    /\ rival' = [rival EXCEPT
                          !.k = @ + 1,
                          !.pc = IF rival.k = Len(rival.clusters) THEN "commit" ELSE "clusters",
                          !.assignments = [a \in DOMAIN @ |->
                                              IF a \in to_link THEN @[a] \cup {story_id} ELSE @[a]],
                          !.new_stories = @ + (IF story.created THEN 1 ELSE 0),
                          !.links_created = @ + Cardinality(to_link)]
        /\ UNCHANGED <<botVars, split, antidup, tags, news, build, syncVars, catVars>>

\* conn.commit() and the return of the second run.
RivalCommit ==
    /\ rival.pc = "commit"
    /\ rival' = BuildIdle
    /\ UNCHANGED <<botVars, split, antidup, tags, news, stories, story_articles, build, syncVars, catVars>>

\* The run has written and not committed: its INSERTs opened a transaction that
\* holds the database's write lock until conn.commit().  Until then another
\* connection reads the tables as they were before the transaction, and
\* cannot write.
InTx(r) == r.pc = "commit" \/ (r.pc = "clusters" /\ r.k > 1)

\* ------------------------------------------------- edit.py and the webapp

\* The texts of an edit or an append of story s are <<s, n>>, n in EditTexts;
\* <<s, 1>> is the first chunk as publish_story stored it.  They are not
\* empty (an empty text is refused before anything else is read).
EditTexts == {1, 2}

NoTarget == [message_id |-> Null, text |-> Null, mode |-> Null]

\* publish_queue rows WHERE item_type = ? AND item_id = ? AND status = 'sent'
\* AND message_id IS NOT NULL
SentWithMessage(q, s) ==
    {i \in RowIds(q) : /\ q[i].item_type = "story" /\ q[i].item_id = s
                       /\ q[i].status = "sent" /\ q[i].message_id # Null}

\* ORDER BY COALESCE(sent_at, enqueued_at) DESC, id DESC LIMIT 1
NewestOf(q, rows) ==
    CHOOSE i \in rows : \A j \in rows :
        \/ Coalesce(q[j]) < Coalesce(q[i])
        \/ Coalesce(q[j]) = Coalesce(q[i]) /\ j <= i

\* Mutant of _resolve_target: the fallback forgets the item_id.
_resolve_target_AnyItem(pm, q, s) ==
    IF pm[s] # Null
    THEN [message_id |-> Some(Val(pm[s]).message_id), text |-> Some(Val(pm[s]).text),
          mode |-> Some(Val(pm[s]).mode)]
    ELSE LET rows == {i \in RowIds(q) : q[i].status = "sent" /\ q[i].message_id # Null}
         IN  IF rows = {} THEN NoTarget
             ELSE [message_id |-> q[NewestOf(q, rows)].message_id, text |-> Null,
                   mode |-> Null]

\* _resolve_target (edit.py) and _resolve_publish_target (webapp), the same
\* code: the publish_map row of the item, else the newest sent queue row that
\* has a message id, else nothing.
_resolve_target(pm, q, s) ==
    IF pm[s] # Null
    THEN [message_id |-> Some(Val(pm[s]).message_id), text |-> Some(Val(pm[s]).text),
          mode |-> Some(Val(pm[s]).mode)]
    ELSE LET rows == SentWithMessage(q, s)
         IN  IF rows = {} THEN NoTarget
             ELSE [message_id |-> q[NewestOf(q, rows)].message_id, text |-> Null,
                   mode |-> Null]

\* The stored mode wins unless the caller gave --mode / ?mode= explicitly.
EffectiveMode(stored_mode, mode, explicit) ==
    IF stored_mode # Null /\ ~explicit THEN Val(stored_mode) ELSE mode

\* Mutant of _record_publish_edit: the reply's message id is not passed on.
_record_publish_edit_NoReply(pe, s, action, message_id, reply_msg_id, old_text, new_text, mode, error) ==
    Append(pe, [item_type |-> "story", item_id |-> s, action |-> action,
                message_id |-> message_id, reply_msg_id |-> Null,
                old_text |-> old_text, new_text |-> new_text, mode |-> mode,
                error |-> error])

\* Mutant of _record_publish_edit: old_text is not passed on.
_record_publish_edit_NoOldText(pe, s, action, message_id, reply_msg_id, old_text, new_text, mode, error) ==
    Append(pe, [item_type |-> "story", item_id |-> s, action |-> action,
                message_id |-> message_id, reply_msg_id |-> reply_msg_id,
                old_text |-> Null, new_text |-> new_text, mode |-> mode,
                error |-> error])

\* Mutant of _record_publish_edit: the error is not passed on.
_record_publish_edit_NoError(pe, s, action, message_id, reply_msg_id, old_text, new_text, mode, error) ==
    Append(pe, [item_type |-> "story", item_id |-> s, action |-> action,
                message_id |-> message_id, reply_msg_id |-> reply_msg_id,
                old_text |-> old_text, new_text |-> new_text, mode |-> mode,
                error |-> Null])

\* _record_publish_edit: INSERT INTO publish_edits, and commit
_record_publish_edit(pe, s, action, message_id, reply_msg_id, old_text, new_text, mode, error) ==
    Append(pe, [item_type |-> "story", item_id |-> s, action |-> action,
                message_id |-> message_id, reply_msg_id |-> reply_msg_id,
                old_text |-> old_text, new_text |-> new_text, mode |-> mode,
                error |-> error])

\* What an edit or an append leaves in `last`.
EditCall(op, s, dry_run, text, result) ==
    [Call(op, Some(s), dry_run, Null, result) EXCEPT !.text = Some(text)]

\* edit --story-id s --edit --text ... (edit.py main) and
\* POST /api/stories/{s}/edit (story_edit_update).  len_ok: the text is within
\* TELEGRAM_LIMIT; chat_ok: edit_text returns; store_ok: the INSERT of
\* store_publish_map goes through (its except only logs).
EditStory(s, n, mode, explicit, len_ok, dry_run, chat_ok, store_ok) ==
    LET target == _resolve_target(publish_map, queue, s)
        text == <<s, n>>
        m == EffectiveMode(target.mode, mode, explicit)
        mid == Val(target.message_id)
    IN  /\ IF target.message_id = Null
           THEN /\ last' = EditCall("edit", s, dry_run, text, "rejected")
                /\ UNCHANGED <<chat, publish_map, publish_edits, admin, pipeVars>>
           ELSE IF ~len_ok
           THEN /\ last' = EditCall("edit", s, dry_run, text, "too_long")
                /\ UNCHANGED <<chat, publish_map, publish_edits, admin, pipeVars>>
           ELSE IF dry_run
           THEN /\ last' = EditCall("edit", s, dry_run, text, "preview")
                /\ UNCHANGED <<chat, publish_map, publish_edits, admin, pipeVars>>
           ELSE IF ~creds
           THEN /\ last' = EditCall("edit", s, dry_run, text, "no_creds")
                /\ UNCHANGED <<chat, publish_map, publish_edits, admin, pipeVars>>
           ELSE IF ~chat_ok
           THEN /\ publish_edits' = _record_publish_edit(publish_edits, s, "edit",
                                        mid, Null, target.text, text, m, Some("exc"))
                /\ last' = EditCall("edit", s, dry_run, text, "error")
                /\ UNCHANGED <<chat, publish_map>>
           ELSE /\ chat' = [chat EXCEPT ![mid].text = text]
                /\ publish_map' = IF store_ok
                                   THEN store_publish_map(publish_map, s, mid, text, m, now)
                                   ELSE publish_map
                /\ publish_edits' = _record_publish_edit(publish_edits, s, "edit",
                                        mid, Null, target.text, text, m, Null)
                /\ last' = EditCall("edit", s, dry_run, text, "sent")
        /\ UNCHANGED <<now, queue, config, creds, sched, retry, admin, pipeVars>>

\* edit --story-id s --append --text ... (edit.py main) and
\* POST /api/stories/{s}/append (story_append_update).  chat_ok: reply_text
\* returns the new message.
AppendStory(s, n, mode, explicit, len_ok, dry_run, chat_ok) ==
    LET target == _resolve_target(publish_map, queue, s)
        text == <<s, n>>
        m == EffectiveMode(target.mode, mode, explicit)
        mid == Val(target.message_id)
        reply == [Message(Len(chat) + 1, s, 0, Some(mid), 0) EXCEPT !.text = text]
    IN  /\ IF target.message_id = Null
           THEN /\ last' = EditCall("append", s, dry_run, text, "rejected")
                /\ UNCHANGED <<chat, publish_edits, admin, pipeVars>>
           ELSE IF ~len_ok
           THEN /\ last' = EditCall("append", s, dry_run, text, "too_long")
                /\ UNCHANGED <<chat, publish_edits, admin, pipeVars>>
           ELSE IF dry_run
           THEN /\ last' = EditCall("append", s, dry_run, text, "preview")
                /\ UNCHANGED <<chat, publish_edits, admin, pipeVars>>
           ELSE IF ~creds
           THEN /\ last' = EditCall("append", s, dry_run, text, "no_creds")
                /\ UNCHANGED <<chat, publish_edits, admin, pipeVars>>
           ELSE IF ~chat_ok
           THEN /\ publish_edits' = _record_publish_edit(publish_edits, s, "append",
                                        mid, Null, Null, text, m, Some("exc"))
                /\ last' = EditCall("append", s, dry_run, text, "error")
                /\ UNCHANGED chat
           ELSE /\ chat' = Append(chat, reply)
                /\ publish_edits' = _record_publish_edit(publish_edits, s, "append",
                                        mid, Some(reply.message_id), Null, text, m, Null)
                /\ last' = EditCall("append", s, dry_run, text, "sent")
        /\ UNCHANGED <<now, queue, publish_map, config, creds, sched, retry, admin, pipeVars>>

\* process_once whose dispatch went through while the INSERT of
\* store_publish_map raised: store_publish_map logs the error and returns,
\* publish_story returns the message ids, and the row is marked sent.
ProcessOnceStoreFails(mode, id) ==
    LET row == queue[id]
        out == publish_story(chat, publish_map, row.item_id, mode, TRUE, 0, id, now)
    IN  /\ creds
        /\ ~_is_quiet(now, config.quiet_hours)
        /\ id \in _dequeue_next(queue, now)
        /\ _check_rate_limits(queue, now, config) = ""
        /\ chat' = out.chat
        /\ queue' = mark_status(queue, id, "sent", Null, PrimaryMsg(out.ids), now)
        /\ last' = Call("process_once", Null, FALSE, Some(id), "sent")
        /\ UNCHANGED <<now, publish_map, config, creds, sched, retry, publish_edits, admin, pipeVars>>

\* ------------------------------------------- sync_champ_news.py: the URLs

\* A URL as it is written: leading whitespace, scheme "://" (or "//" alone),
\* host, path, "?" query, "#" fragment.  The host is its labels, the path its
\* characters, the query its keys in order.  Whitespace at the end of a URL
\* with no query and no fragment is the path's trailing " ".
Url(lead, scheme, host, path, query, fragment) ==
    [lead |-> lead, scheme |-> scheme, host |-> host, path |-> path,
     query |-> query, fragment |-> fragment]

PathChars == {"a", "/", " ", ";"}
Paths == {p \in UNION {[1..n -> PathChars] : n \in 0..MaxPath} : p = <<>> \/ p[1] = "/"}
Schemes == {"http", "https", ""}
Hosts ==
    {<<"x", "com">>, <<"www", "x", "com">>, <<"WWW", "x", "com">>,
     <<"championat", "com">>, <<"m", "championat", "com">>}
Queries == {<<>>, <<"utm_source">>, <<"id">>, <<"utm_source", "id">>}
UrlInputs ==
    {Url(lead, scheme, host, path, query, fragment) :
        lead \in BOOLEAN, scheme \in Schemes, host \in Hosts, path \in Paths,
        query \in Queries, fragment \in BOOLEAN}

RECURSIVE RstripChar(_, _)
\* str.rstrip(c)
RstripChar(s, c) ==
    IF s # <<>> /\ s[Len(s)] = c THEN RstripChar(SubSeq(s, 1, Len(s) - 1), c) ELSE s

\* url.strip(): the whitespace at both ends of the written URL
strip(u) ==
    [u EXCEPT !.lead = FALSE,
              !.path = IF u.query = <<>> /\ ~u.fragment THEN RstripChar(@, " ") ELSE @]

\* urllib.parse._splitparams: the path up to the first ";" of its last segment
_splitparams(path) ==
    LET slash == {i \in 1..Len(path) : path[i] = "/"}
        from == IF slash = {} THEN 1 ELSE CHOOSE i \in slash : \A j \in slash : j <= i
        semis == {i \in from..Len(path) : path[i] = ";"}
    IN  IF semis = {} THEN path
        ELSE SubSeq(path, 1, (CHOOSE i \in semis : \A j \in semis : i <= j) - 1)

\* str.lower() on a host label
Lower(label) == IF label = "WWW" THEN "www" ELSE label

\* netloc.lower().replace("www.", ""): every label "www" that a dot follows
StripWww(host) ==
    LET lower == [i \in 1..Len(host) |-> Lower(host[i])]
    IN  SelectSeq([i \in 1..Len(lower) |-> <<i, lower[i]>>],
                  LAMBDA e : ~(e[2] = "www" /\ e[1] < Len(lower)))

Netloc(host) ==
    LET labels == [i \in 1..Len(StripWww(host)) |-> StripWww(host)[i][2]]
        n == Len(labels)
    IN  IF n > 2 /\ SubSeq(labels, n - 1, n) = <<"championat", "com">>
        THEN <<"championat", "com">>
        ELSE labels

_strip_utm(q) == SelectSeq(q, LAMBDA k : k # "utm_source")

normalize_url(url) ==
    LET u == strip(url)
        path == RstripChar(_splitparams(u.path), "/")
    IN  Url(FALSE, "https", Netloc(u.host), path, _strip_utm(u.query), FALSE)

\* One URL normalized again and again: norm.out[k] is the k-th result.
NormIdle == [pc |-> "idle", url |-> Null, out |-> <<>>]

NormalizeUrl(url) ==
    /\ norm.pc = "idle"
    /\ norm' = [pc |-> "called", url |-> Some(url), out |-> <<normalize_url(url)>>]
    /\ UNCHANGED <<botVars, split, antidup, tags, clusterVars, feed, crawl, catVars>>

NormalizeAgain ==
    /\ norm.pc = "called"
    /\ Len(norm.out) < MaxPasses
    /\ norm' = [norm EXCEPT !.out = Append(@, normalize_url(@[Len(@)]))]
    /\ UNCHANGED <<botVars, split, antidup, tags, clusterVars, feed, crawl, catVars>>

\* --------------------------------------- sync_champ_news.py: upsert_news

\* The URLs articles come with: https://x.com/a, two other spellings of it,
\* https://x.com and https://x.com/;/
ArticleUrls ==
    {Url(FALSE, "https", <<"x", "com">>, <<"/", "a">>, <<>>, FALSE),
     Url(FALSE, "http", <<"www", "x", "com">>, <<"/", "a", "/">>, <<"utm_source">>, FALSE),
     Url(TRUE, "", <<"x", "com">>, <<"/", "a">>, <<>>, TRUE),
     Url(FALSE, "https", <<"x", "com">>, <<>>, <<>>, FALSE),
     Url(FALSE, "https", <<"x", "com">>, <<"/", ";", "/">>, <<>>, FALSE)}

\* sanitize_text(article.get("title")): "" when the article has no title
ArticleTitles == {"", "title"}

\* article.get("url") is None for an article without a URL
ArticleInputsOfSync ==
    {[url |-> url, title |-> title] :
        url \in {Null} \cup {Some(u) : u \in ArticleUrls}, title \in ArticleTitles}

\* A row of table news: row i has id i.  Of its columns the URL and the title.
NewsRow(url, title) == [url |-> url, title |-> title]

\* SELECT id FROM news WHERE url = ?
UrlRows(rows, nurl) == {i \in 1..Len(rows) : rows[i].url = nurl}

\* upsert_news: the table after the call, and the (news_id, inserted) returned
upsert_news(rows, article) ==
    IF article.url = Null
    THEN [rows |-> rows, news_id |-> Null, inserted |-> FALSE]
    ELSE LET nurl == normalize_url(Val(article.url))
             found == UrlRows(rows, nurl)
         IN  IF found # {}
             THEN [rows |-> [i \in 1..Len(rows) |->
                                IF i \in found /\ article.title # ""
                                THEN [rows[i] EXCEPT !.title = Some(article.title)]
                                ELSE rows[i]],
                   news_id |-> Some(CHOOSE i \in found : \A j \in found : i <= j),
                   inserted |-> FALSE]
             ELSE [rows |-> Append(rows, NewsRow(nurl,
                                IF article.title # "" THEN Some(article.title) ELSE Null)),
                   news_id |-> Some(Len(rows) + 1),
                   inserted |-> TRUE]

NoFeed == [rows |-> <<>>, call |-> Null]

UpsertNews(article) ==
    \E out \in {upsert_news(feed.rows, article)} :
        /\ Len(out.rows) <= MaxFeed
        /\ feed' = [rows |-> out.rows,
                    call |-> Some([article |-> article, news_id |-> out.news_id,
                                   inserted |-> out.inserted])]
        /\ UNCHANGED <<botVars, split, antidup, tags, clusterVars, norm, crawl, catVars>>

\* -------------------------- sync_champ_news.py: collect_until_anchor_by_url

\* The links of the listing: https://www.championat.com/a/ and
\* https://championat.com/aa; an item may have no link at all.
ListingUrls ==
    {Url(FALSE, "https", <<"www", "championat", "com">>, <<"/", "a", "/">>, <<>>, FALSE),
     Url(FALSE, "https", <<"championat", "com">>, <<"/", "a", "a">>, <<>>, FALSE)}
ListingItems == {Null} \cup {Some(u) : u \in ListingUrls}

\* What get_soup and select_one give for a page: None, or the items of the
\* page's groups in the order of the page.
ListingPages ==
    {Null} \cup {Some(items) : items \in UNION {[1..n -> ListingItems] : n \in 0..MaxItems}}

\* anchor_url: none, or http://championat.com/a?utm_source
AnchorUrls ==
    {Null, Some(Url(FALSE, "http", <<"championat", "com">>, <<"/", "a">>, <<"utm_source">>, FALSE))}

IsAnchor_Never(anchor_norm, full_url) == FALSE
\* if anchor_norm and full_url == anchor_norm
IsAnchor(anchor_norm, full_url) == anchor_norm # Null /\ full_url = Val(anchor_norm)

RECURSIVE ScanItems(_, _, _, _)
\* for item in items: the metas appended up to the break, and found_anchor
ScanItems(items, i, anchor_norm, metas) ==
    IF i > Len(items) THEN [all_metas |-> metas, found_anchor |-> FALSE]
    ELSE IF items[i] = Null THEN ScanItems(items, i + 1, anchor_norm, metas)
    ELSE LET full_url == normalize_url(Val(items[i]))
         IN  IF IsAnchor(anchor_norm, full_url)
             THEN [all_metas |-> metas, found_anchor |-> TRUE]
             ELSE ScanItems(items, i + 1, anchor_norm, Append(metas, full_url))

CrawlIdle ==
    [pc |-> "idle", anchor_url |-> Null, anchor_norm |-> Null, max_pages |-> 0,
     page |-> 0, fetched |-> <<>>, all_metas |-> <<>>, found_anchor |-> FALSE]

CollectStart(anchor_url, max_pages) ==
    /\ crawl.pc = "idle"
    /\ crawl' = [CrawlIdle EXCEPT
                    !.pc = "page",
                    !.anchor_url = anchor_url,
                    !.anchor_norm = IF anchor_url # Null
                                    THEN Some(normalize_url(Val(anchor_url))) ELSE Null,
                    !.max_pages = max_pages,
                    !.page = 1]
    /\ UNCHANGED <<botVars, split, antidup, tags, clusterVars, norm, feed, catVars>>

\* One pass of "for page in range(1, max_pages + 1)": the page is fetched and
\* its items are read up to the anchor.
CollectPage(soup) ==
    /\ crawl.pc = "page"
    /\ \E out \in {IF soup = Null
                   THEN [all_metas |-> crawl.all_metas, found_anchor |-> FALSE]
                   ELSE ScanItems(Val(soup), 1, crawl.anchor_norm, crawl.all_metas)} :
            crawl' = [crawl EXCEPT
                        !.fetched = Append(@, soup),
                        !.all_metas = out.all_metas,
                        !.found_anchor = out.found_anchor,
                        !.page = @ + 1,
                        !.pc = IF out.found_anchor \/ crawl.page = crawl.max_pages
                               THEN "done" ELSE "page"]
    /\ UNCHANGED <<botVars, split, antidup, tags, clusterVars, norm, feed, catVars>>

\* return all_metas
CollectReturn ==
    /\ crawl.pc = "done"
    /\ crawl' = CrawlIdle
    /\ UNCHANGED <<botVars, split, antidup, tags, clusterVars, norm, feed, catVars>>

\* ------------------------------------------------- the scheduler and the admin

InitWith(cfgs, cr) ==
    /\ now = 0
    /\ queue = <<>>
    /\ chat = <<>>
    /\ publish_map = [s \in StoryIds |-> Null]
    /\ config \in cfgs
    /\ creds \in cr
    /\ last = Call("init", Null, FALSE, Null, "")
    /\ sched = Idle
    /\ retry = RetryIdle
    /\ publish_edits = <<>>
    /\ admin = Idle
    /\ split = SplitIdle
    /\ antidup = AntidupIdle
    /\ tags = NoTags
    /\ news = NoNews
    /\ stories = <<>>
    /\ story_articles = {}
    /\ build = BuildIdle
    /\ rival = BuildIdle
    /\ norm = NormIdle
    /\ feed = NoFeed
    /\ crawl = CrawlIdle
    /\ sig = SigIdle
    /\ pairing = PairingIdle
    /\ assign = AssignIdle

\* interval 1800 s, 2 an hour, 3 a day, no quiet hours, a dedup window of 1 day
Init == InitWith({SchedulerConfig(HalfHour, 2, 3, Null, DedupDays)}, {TRUE})

\* Calls are made on the first day and on the day the dedup window of the
\* first day's rows runs out.
TimePoints == Instants(DedupDays, MaxSlots)

\* Calls that change state (dry_run = FALSE), one at a time.
Next ==
    \/ \E t \in TimePoints : Tick(t)
    \/ \E ss \in StorySelections :
            /\ Len(EnqueueLoop(queue, ss, 0, Null, now, config)) <= MaxRows
            /\ Enqueue(ss, 0, Null, FALSE)
    \/ \E mode \in Modes, id \in RowIds(queue), io_ok \in BOOLEAN,
          fail_at \in 0..3, d \in DispatchDelays :
            /\ fail_at <= NChunks(queue[id].item_id)
            /\ io_ok \/ fail_at = 0
            /\ now + d \in TimePoints
            /\ ProcessOnce(FALSE, mode, id, io_ok, fail_at, d)
    \/ ProcessOnceSkip(FALSE)
    \/ \E s \in StoryIds : PublishStoryNowSkip(s, FALSE)
    \/ \E s \in StoryIds, mode \in Modes, io_ok \in BOOLEAN, fail_at \in 0..3,
          d \in DispatchDelays :
            /\ fail_at <= NChunks(s)
            /\ io_ok \/ fail_at = 0
            /\ now + d \in TimePoints
            /\ PublishStoryNow(s, mode, io_ok, fail_at, d)

Spec == Init /\ [][Next]_vars

\* The same calls in an environment that may lack the chat credentials, with
\* the admin's previews (dry_run = TRUE).
InitEnv == InitWith({SchedulerConfig(HalfHour, 2, 3, Null, DedupDays)}, BOOLEAN)

NextEnv ==
    \/ Next
    \/ \E s \in StoryIds : PublishStoryNowSkip(s, TRUE)

SpecEnv == InitEnv /\ [][NextEnv]_vars

\* ------------------------------------------------ the scheduler on its own

\* Two configurations with no dedup window, so that a story is enqueued anew
\* at every instant: 2 an hour and 3 a day, where the interval is the limit
\* that binds first, and 1 an hour and 2 a day, where the hour and the day are.
InitRate ==
    InitWith({SchedulerConfig(HalfHour, 2, 3, Null, 0),
              SchedulerConfig(HalfHour, 1, 2, Null, 0)}, {TRUE})

\* One single-chunk story is what build_clusters keeps finding.
RateStories == {s \in Stories : NChunks(s) <= 1}

RatePoints == {k * HalfHour : k \in 0..RateSlots}

NextRate ==
    \/ \E t \in RatePoints : Tick(t)
    \/ \E s \in RateStories :
            /\ Len(queue) < RateRows
            /\ Enqueue(<<s>>, 0, Null, FALSE)
    \/ \E mode \in Modes, id \in RowIds(queue), io_ok \in BOOLEAN,
          fail_at \in 0..1, d \in DispatchDelays :
            /\ fail_at <= NChunks(queue[id].item_id)
            /\ io_ok \/ fail_at = 0
            /\ now + d \in RatePoints
            /\ ProcessOnce(FALSE, mode, id, io_ok, fail_at, d)
    \/ ProcessOnceSkip(FALSE)

SpecRate == InitRate /\ [][NextRate]_vars

\* ------------------------------------- the scheduler and the queue's order

\* --priority of an enqueue, and its scheduled_at: none, or half an hour after
\* midnight.
Priorities == {0, 1}
Schedules == {Null, Some(HalfHour)}
OrderPoints == {0, HalfHour}

NextOrder ==
    \/ \E t \in OrderPoints : Tick(t)
    \/ \E s \in Stories, priority \in Priorities, scheduled_at \in Schedules :
            /\ Len(queue) < MaxRows
            /\ Enqueue(<<s>>, priority, scheduled_at, FALSE)
    \/ \E mode \in Modes, id \in RowIds(queue), io_ok \in BOOLEAN :
            ProcessOnce(FALSE, mode, id, io_ok, 0, 0)
    \/ ProcessOnceSkip(FALSE)

SpecOrder == Init /\ [][NextOrder]_vars

\* ------------------------------------------ the scheduler and its deferrals

\* An interval of one hour; no interval and one send an hour; no interval and
\* one send a day.  No dedup window, so that a story is enqueued anew.
InitDefer ==
    InitWith({SchedulerConfig(SecPerHour, 2, 3, Null, 0),
              SchedulerConfig(0, 1, 2, Null, 0),
              SchedulerConfig(0, 2, 1, Null, 0)}, {TRUE})

DeferPoints == {0, HalfHour, SecPerHour}
DeferSchedules == {Null, Some(SecPerHour)}

\* time.sleep(config.interval_sec) of the scheduler's loop, between two calls
\* of process_once: only the clock moves.
Sleep(t) ==
    /\ t > now
    /\ now' = t
    /\ UNCHANGED <<queue, chat, publish_map, config, creds, last, sched, retry, publish_edits, admin, pipeVars>>

NextDefer ==
    \/ \E t \in DeferPoints : Sleep(t)
    \/ \E s \in Stories, priority \in Priorities, scheduled_at \in DeferSchedules :
            /\ Len(queue) < RateRows
            /\ Enqueue(<<s>>, priority, scheduled_at, FALSE)
    \/ \E mode \in Modes, id \in RowIds(queue) :
            ProcessOnce(FALSE, mode, id, TRUE, 0, 0)
    \/ ProcessOnceSkip(FALSE)

SpecDefer == InitDefer /\ [][NextDefer]_vars

\* ------------------------------------------------- the scheduler's loop

\* python -m bot.scheduler --loop after the enqueues: an interval of an hour
\* with one send an hour; an interval of six hours with one send a day; an
\* interval of an hour with two sends an hour and quiet hours from 22 to 1.
\* No dedup window; the stories enqueued are different ones.  The
\* credentials of the chat are set or they are not.
SixHours == SecPerDay \div 4
InitLoop ==
    InitWith({SchedulerConfig(SecPerHour, 1, LoopRows + 1, Null, 0),
              SchedulerConfig(SixHours, 2, 1, Null, 0),
              SchedulerConfig(SecPerHour, 2, LoopRows + 1, <<22, 1>>, 0)}, BOOLEAN)

\* The clock of the model stops after a day, and where one send a day is the
\* limit a day after the last row can have had its turn.
LoopHorizon ==
    IF config.max_per_day > LoopRows THEN SecPerDay ELSE (LoopRows + 1) * SecPerDay

\* The loop has not made its first call of process_once.
BeforeLoop == last.op \in {"init", "enqueue"}

\* The loop is about to call process_once.
AtProcessOnce == last.op # "process_once"

\* The rows are enqueued before the loop starts.
LoopEnqueue ==
    /\ BeforeLoop
    /\ Len(queue) < LoopRows
    /\ \E s \in Stories, priority \in Priorities, scheduled_at \in DeferSchedules :
            Enqueue(<<s>>, priority, scheduled_at, FALSE)

\* while True: process_once(dry_run=False, ...), a dispatch or a return
\* before it
LoopProcessOnce ==
    /\ AtProcessOnce
    /\ \/ \E mode \in Modes, id \in RowIds(queue), io_ok \in BOOLEAN, fail_at \in 0..1 :
              /\ io_ok \/ fail_at = 0
              /\ ProcessOnce(FALSE, mode, id, io_ok, fail_at, 0)
       \/ ProcessOnceSkip(FALSE)

\* time.sleep(config.interval_sec)
LoopSleep ==
    /\ ~AtProcessOnce
    /\ now + config.interval_sec <= LoopHorizon
    /\ Tick(now + config.interval_sec)

NextLoop ==
    \/ LoopEnqueue
    \/ LoopProcessOnce
    \/ LoopSleep

\* The loop keeps running: it is one process that calls and sleeps in turn.
SpecLoop == InitLoop /\ [][NextLoop]_vars /\ WF_vars(LoopProcessOnce \/ LoopSleep)

\* --------------------------------------------- the scheduler and quiet hours

\* PUBLISH_QUIET_HOURS: unset, "2-2", "1-3", "22-1"
QuietSettings == {Null, <<2, 2>>, <<1, 3>>, <<22, 1>>}

InitQuiet ==
    InitWith({SchedulerConfig(HalfHour, 2, 3, qh, DedupDays) : qh \in QuietSettings}, {TRUE})

\* The hours of the day at which the scheduler runs.
QuietPoints == {h * SecPerHour : h \in {0, 1, 2, 3, 12, 22, 23}}

NextQuiet ==
    \/ \E t \in QuietPoints : Tick(t)
    \/ \E s \in Stories :
            /\ Len(queue) < QuietRows
            /\ Enqueue(<<s>>, 0, Null, FALSE)
    \/ \E dry_run \in BOOLEAN, mode \in Modes, id \in RowIds(queue), io_ok \in BOOLEAN,
          fail_at \in 0..3 :
            /\ fail_at <= NChunks(queue[id].item_id)
            /\ io_ok \/ fail_at = 0
            /\ ProcessOnce(dry_run, mode, id, io_ok, fail_at, 0)
    \/ \E dry_run \in BOOLEAN : ProcessOnceSkip(dry_run)

SpecQuiet == InitQuiet /\ [][NextQuiet]_vars

\* ------------------------------------------------------ edits and appends

\* The scheduler publishes, the admin edits and appends; the credentials may
\* be missing.
\* The instants of the calls: a dispatch and the edits that follow it.
EditPoints == {0, HalfHour}

NextEdit ==
    \/ \E t \in EditPoints : Tick(t)
    \/ \E s \in Stories :
            /\ Len(queue) < EditRows
            /\ Enqueue(<<s>>, 0, Null, FALSE)
    \/ \E mode \in Modes, id \in RowIds(queue), io_ok \in BOOLEAN :
            ProcessOnce(FALSE, mode, id, io_ok, 0, 0)
    \/ \E mode \in Modes, id \in RowIds(queue) : ProcessOnceStoreFails(mode, id)
    \/ \E s \in StoryIds, n \in EditTexts, mode \in Modes, explicit \in BOOLEAN,
          len_ok \in BOOLEAN, dry_run \in BOOLEAN, chat_ok \in BOOLEAN,
          store_ok \in BOOLEAN :
            /\ Len(publish_edits) < MaxEdits
            \* inputs that are not read are left at one value
            /\ len_ok \/ (~dry_run /\ chat_ok /\ store_ok)
            /\ dry_run => (chat_ok /\ store_ok)
            /\ chat_ok \/ store_ok
            /\ EditStory(s, n, mode, explicit, len_ok, dry_run, chat_ok, store_ok)
    \/ \E s \in StoryIds, n \in EditTexts, mode \in Modes, explicit \in BOOLEAN,
          len_ok \in BOOLEAN, dry_run \in BOOLEAN, chat_ok \in BOOLEAN :
            /\ Len(publish_edits) < MaxEdits
            /\ len_ok \/ (~dry_run /\ chat_ok)
            /\ dry_run => chat_ok
            /\ AppendStory(s, n, mode, explicit, len_ok, dry_run, chat_ok)

SpecEdit == InitEnv /\ [][NextEdit]_vars

\* ------------------------------------------- appends after edits and appends

\* One story is published, then the admin edits it and appends to it several
\* times, without --dry-run; the platform may refuse a call.
InitAppend == InitWith({SchedulerConfig(0, 2, 3, Null, DedupDays)}, {TRUE})

NextAppend ==
    \/ \E s \in Stories :
            /\ Len(queue) < EditRows
            /\ Enqueue(<<s>>, 0, Null, FALSE)
    \/ \E mode \in Modes, id \in RowIds(queue) : ProcessOnce(FALSE, mode, id, TRUE, 0, 0)
    \/ \E mode \in Modes, id \in RowIds(queue) : ProcessOnceStoreFails(mode, id)
    \/ \E s \in StoryIds, n \in EditTexts, mode \in Modes, explicit \in BOOLEAN,
          chat_ok \in BOOLEAN :
            /\ Len(publish_edits) < MaxAppends
            /\ EditStory(s, n, mode, explicit, TRUE, FALSE, chat_ok, TRUE)
    \/ \E s \in StoryIds, n \in EditTexts, mode \in Modes, explicit \in BOOLEAN,
          chat_ok \in BOOLEAN :
            /\ Len(publish_edits) < MaxAppends
            /\ AppendStory(s, n, mode, explicit, TRUE, FALSE, chat_ok)

SpecAppend == InitAppend /\ [][NextAppend]_vars

\* -------------------------------------------------- _split_messages alone

NextSplit ==
    \/ /\ split.pc = "idle"
       /\ \E lines \in LineInputs : SplitStart(lines, SplitLimit)
    \/ SplitLine
    \/ SplitEnd
    \/ SplitReturn

SpecSplit == Init /\ [][NextSplit]_vars

\* ------------------------------------------- filter_near_duplicates alone

NextAntidup ==
    \/ /\ antidup.pc = "idle"
       /\ \E articles \in ArticleInputs : FilterStart(articles)
    \/ FilterArticle
    \/ FilterEnd
    \/ FilterReturn

SpecAntidup == Init /\ [][NextAntidup]_vars

\* ------------------------------------------------- title_signature alone

NextSig ==
    \/ /\ sig.pc = "idle"
       /\ \E tokens \in TitleTokens : TitleSignature(tokens)
    \/ /\ sig.pc = "called"
       /\ \E order \in Orders(Len(sig.tokens)) : TitleSignatureReordered(order)
    \/ SigReturn

SpecSig == Init /\ [][NextSig]_vars

\* ------------------------------------------------- union_clusters alone

NextUnion ==
    \/ /\ pairing.pc = "idle"
       /\ \E items \in ItemInputs : UnionStart(items)
    \/ UnionPair
    \/ BuildClusters
    \/ UnionReturn

SpecUnion == Init /\ [][NextUnion]_vars

\* ------------------------------------ assign_entities_for_article alone

NextAssign ==
    \/ \E tag_rows \in TagRowInputs, prefer_existing \in BOOLEAN :
            AssignEntities(tag_rows, prefer_existing)
    \/ AssignReturn

SpecAssign == Init /\ [][NextAssign]_vars

\* ------------------------------------------------------- upsert_tag alone

NextTags ==
    \E name \in TagNames, url \in TagUrls, raw_type \in RawTypes, guess \in Guesses :
        UpsertTag(name, url, raw_type, guess)

SpecTags == Init /\ [][NextTags]_vars

\* ----------------------------------------------------- the clusterer alone

NextCluster ==
    \/ \E title \in Titles, sports \in SportSets, gap \in Gaps : NewsArrives(title, sports, gap)
    \/ \E since_days \in SinceDays, limit \in Limits, dry_run \in BOOLEAN :
            BuildRun(since_days, limit, dry_run)
    \/ BuildCluster
    \/ BuildCommit

SpecCluster == Init /\ [][NextCluster]_vars

\* ------------------------------- the clusterer run again, two sports

\* Articles of two sports and three titles, an hour apart; every run takes
\* the whole window and writes.
RerunSports == {{1}, {2}}
RerunTitles == {1, 2, 3}

NextRerun ==
    \/ \E title \in RerunTitles, sports \in RerunSports : NewsArrives(title, sports, 1)
    \/ \E since_days \in SinceDays : BuildRun(since_days, MaxNews, FALSE)
    \/ BuildCluster
    \/ BuildCommit

SpecRerun == Init /\ [][NextRerun]_vars

\* ------------------------------------------- two runs of the clusterer

\* Two invocations of build.py at once.  A run takes its steps while the
\* other one has nothing uncommitted: what it reads during the other's
\* transaction is what it would have read before it, and its own INSERT
\* waits for the other's commit.
NextOverlap ==
    \/ \E title \in Titles, sports \in SportSets : NewsArrives(title, sports, 1)
    \/ \E since_days \in SinceDays :
            /\ ~InTx(rival)
            /\ BuildRun(since_days, 100, FALSE)
    \/ ~InTx(rival) /\ BuildCluster
    \/ BuildCommit
    \/ \E since_days \in SinceDays :
            /\ ~InTx(build)
            /\ RivalRun(since_days, 100, FALSE)
    \/ ~InTx(build) /\ RivalCluster
    \/ RivalCommit

SpecOverlap == Init /\ [][NextOverlap]_vars

\* ---------------------------------------------------- normalize_url alone

NextUrl ==
    \/ /\ norm.pc = "idle"
       /\ \E url \in UrlInputs : NormalizeUrl(url)
    \/ NormalizeAgain

SpecUrl == Init /\ [][NextUrl]_vars

\* ------------------------------------------------------ upsert_news alone

NextFeed == \E article \in ArticleInputsOfSync : UpsertNews(article)

SpecFeed == Init /\ [][NextFeed]_vars

\* -------------------------------------- collect_until_anchor_by_url alone

NextCrawl ==
    \/ \E anchor_url \in AnchorUrls, max_pages \in 1..MaxPages :
            CollectStart(anchor_url, max_pages)
    \/ /\ crawl.pc = "page"
       /\ \E soup \in ListingPages : CollectPage(soup)
    \/ CollectReturn

SpecCrawl == Init /\ [][NextCrawl]_vars

\* ------------------------------------------ the commands and their previews

\* enqueue, process_once and the clusterer, each as a preview
\* (dry_run = TRUE) and for real, and the previews of edit and append, on one
\* clock reading.
NextDry ==
    \/ \E s \in Stories, dry_run \in BOOLEAN :
            /\ dry_run \/ Len(queue) < EditRows
            /\ Enqueue(<<s>>, 0, Null, dry_run)
    \/ \E mode \in Modes, id \in RowIds(queue), dry_run \in BOOLEAN :
            ProcessOnce(dry_run, mode, id, TRUE, 0, 0)
    \/ \E dry_run \in BOOLEAN : ProcessOnceSkip(dry_run)
    \/ \E s \in StoryIds, n \in EditTexts, mode \in Modes, len_ok \in BOOLEAN :
            EditStory(s, n, mode, TRUE, len_ok, TRUE, TRUE, TRUE)
    \/ \E s \in StoryIds, n \in EditTexts, mode \in Modes, len_ok \in BOOLEAN :
            AppendStory(s, n, mode, TRUE, len_ok, TRUE, TRUE)
    \/ \E sports \in SportSets : NewsArrives(1, sports, 1)
    \/ \E since_days \in SinceDays, dry_run \in BOOLEAN : BuildRun(since_days, 100, dry_run)
    \/ BuildCluster
    \/ BuildCommit

SpecDry == Init /\ [][NextDry]_vars

\* ------------------------------------------------------- _with_retry alone

NextRetry ==
    \/ \E action \in RetryActions : RetryStart(action)
    \/ \E resp \in Responses, ra \in RetryAfterValues, jitter \in 0..MaxRetryAfter :
            RetryAttempt(resp, ra, jitter)
    \/ RetrySleep
    \/ RetryExhaust
    \/ RetryReturn

SpecRetry == Init /\ [][NextRetry]_vars

\* The event loop runs a started coroutine on: the platform answers, the
\* sleep ends.
RetryRuns ==
    (\E resp \in Responses, ra \in RetryAfterValues, jitter \in 0..MaxRetryAfter :
            RetryAttempt(resp, ra, jitter))
        \/ RetrySleep \/ RetryExhaust

SpecRetryFair == SpecRetry /\ WF_vars(RetryRuns)

\* ------------------------------------------ process_once, one step at a time

\* process_once up to its dispatch: the quiet-hours check, _dequeue_next, the
\* rate limits, and publish_story's rendering.
PO_Begin(id, io_ok) ==
    /\ sched.pc = "idle"
    /\ creds
    /\ ~_is_quiet(now, config.quiet_hours)
    /\ id \in _dequeue_next(queue, now)
    /\ _check_rate_limits(queue, now, config) = ""
    /\ sched' = IF RenderOk(queue[id].item_id, io_ok)
                 THEN [pc |-> "send", row |-> Some(id), k |-> 1, ids |-> <<>>, outcome |-> ""]
                 ELSE [pc |-> "mark", row |-> Some(id), k |-> 0, ids |-> <<>>, outcome |-> "sent"]
    /\ last' = Call("process_once", Null, FALSE, Some(id), "")
    /\ UNCHANGED <<now, queue, chat, publish_map, config, creds, retry, publish_edits, admin, pipeVars>>

\* _send_chunks: one send_text; the platform accepts the chunk (ok) or the
\* call raises.
PO_Send(ok) ==
    LET id == Val(sched.row)
        s == queue[id].item_id
        reply_to == IF sched.ids = <<>> THEN Null ELSE Some(sched.ids[Len(sched.ids)])
    IN  /\ sched.pc = "send"
        /\ IF ok
           THEN /\ chat' = SendText(chat, s, sched.k, reply_to, id)
                /\ sched' = [sched EXCEPT !.ids = Append(@, Len(chat) + 1),
                                          !.k = @ + 1,
                                          !.pc = IF sched.k = NChunks(s) THEN "store" ELSE "send"]
           ELSE /\ chat' = chat
                /\ sched' = [sched EXCEPT !.pc = "mark", !.outcome = "error"]
        /\ UNCHANGED <<now, queue, publish_map, config, creds, last, retry, publish_edits, admin, pipeVars>>

\* publish_story after _send_chunks returned: store_publish_map.
PO_Store(mode) ==
    /\ sched.pc = "store"
    /\ publish_map' = store_publish_map(publish_map, queue[Val(sched.row)].item_id,
                                        sched.ids[1], <<queue[Val(sched.row)].item_id, 1>>,
                                        mode, now)
    /\ sched' = [sched EXCEPT !.pc = "mark", !.outcome = "sent"]
    /\ UNCHANGED <<now, queue, chat, config, creds, last, retry, publish_edits, admin, pipeVars>>

\* process_once after _send_queue_item: mark_status, and the return.
PO_Mark ==
    /\ sched.pc = "mark"
    /\ queue' = IF sched.outcome = "sent"
                 THEN mark_status(queue, Val(sched.row), "sent", Null, PrimaryMsg(sched.ids), now)
                 ELSE mark_status(queue, Val(sched.row), "error", Some("exc"), Null, now)
    /\ sched' = Idle
    /\ last' = Call("process_once", Null, FALSE, sched.row, sched.outcome)
    /\ UNCHANGED <<now, chat, publish_map, config, creds, retry, publish_edits, admin, pipeVars>>

\* KeyboardInterrupt (SIGINT) or the death of the process while process_once
\* runs: no except clause of process_once catches it, the finally closes the
\* connection, and the loop of main ends.  A later run starts from idle.
Cancel ==
    /\ sched.pc # "idle"
    /\ sched' = Idle
    /\ last' = Call("cancel", Null, FALSE, sched.row, "")
    /\ UNCHANGED <<now, queue, chat, publish_map, config, creds, retry, publish_edits, admin, pipeVars>>

NextCancel ==
    \/ \E t \in TimePoints : Tick(t)
    \/ \E ss \in StorySelections :
            /\ sched.pc = "idle"
            /\ Len(EnqueueLoop(queue, ss, 0, Null, now, config)) <= MaxRows
            /\ Enqueue(ss, 0, Null, FALSE)
    \/ \E id \in RowIds(queue), io_ok \in BOOLEAN :
            /\ Len(chat) < MaxChat
            /\ PO_Begin(id, io_ok)
    \/ \E ok \in BOOLEAN : PO_Send(ok)
    \/ \E mode \in Modes : PO_Store(mode)
    \/ PO_Mark
    \/ Cancel

SpecCancel == Init /\ [][NextCancel]_vars

\* --------------------------------- publish_story_now, one step at a time

\* publish_story_now up to its dispatch: _fetch_recent_queue_entry, the
\* dedup on a sent row, the credentials, the queued row reused or a row
\* created (and committed), and publish_story's rendering.
PN_Begin(s, io_ok) ==
    LET existing == _fetch_recent_queue_entry(queue, s, now, config)
        reuse == reuse_existing(queue, existing)
        queue_id == IF reuse THEN CHOOSE i \in existing : TRUE ELSE Len(queue) + 1
    IN  /\ admin.pc = "idle"
        /\ creds
        /\ ~already_sent(queue, existing)
        /\ queue' = IF reuse THEN queue ELSE _create_queue_entry(queue, s, now)
        /\ admin' = IF RenderOk(s, io_ok)
                     THEN [pc |-> "send", row |-> Some(queue_id), k |-> 1, ids |-> <<>>,
                           outcome |-> ""]
                     ELSE [pc |-> "mark", row |-> Some(queue_id), k |-> 0, ids |-> <<>>,
                           outcome |-> "sent"]
        /\ last' = Call("publish_story_now", Some(s), FALSE, Some(queue_id), "")
        /\ UNCHANGED <<now, chat, publish_map, config, creds, sched, retry, publish_edits, pipeVars>>

\* _send_chunks of publish_story_now: one send_text.
PN_Send(ok) ==
    LET id == Val(admin.row)
        s == queue[id].item_id
        reply_to == IF admin.ids = <<>> THEN Null ELSE Some(admin.ids[Len(admin.ids)])
    IN  /\ admin.pc = "send"
        /\ IF ok
           THEN /\ chat' = SendText(chat, s, admin.k, reply_to, id)
                /\ admin' = [admin EXCEPT !.ids = Append(@, Len(chat) + 1),
                                          !.k = @ + 1,
                                          !.pc = IF admin.k = NChunks(s) THEN "store" ELSE "send"]
           ELSE /\ chat' = chat
                /\ admin' = [admin EXCEPT !.pc = "mark", !.outcome = "error"]
        /\ UNCHANGED <<now, queue, publish_map, config, creds, last, sched, retry, publish_edits, pipeVars>>

\* publish_story after _send_chunks returned: store_publish_map.
PN_Store(mode) ==
    /\ admin.pc = "store"
    /\ publish_map' = store_publish_map(publish_map, queue[Val(admin.row)].item_id,
                                        admin.ids[1], <<queue[Val(admin.row)].item_id, 1>>,
                                        mode, now)
    /\ admin' = [admin EXCEPT !.pc = "mark", !.outcome = "sent"]
    /\ UNCHANGED <<now, queue, chat, config, creds, last, sched, retry, publish_edits, pipeVars>>

\* publish_story_now after publish_story: mark_status, and the response.
PN_Mark ==
    /\ admin.pc = "mark"
    /\ queue' = IF admin.outcome = "sent"
                 THEN mark_status(queue, Val(admin.row), "sent", Null, PrimaryMsg(admin.ids), now)
                 ELSE mark_status(queue, Val(admin.row), "error", Some("exc"), Null, now)
    /\ admin' = Idle
    /\ last' = Call("publish_story_now", Some(queue[Val(admin.row)].item_id), FALSE,
                    admin.row, admin.outcome)
    /\ UNCHANGED <<now, chat, publish_map, config, creds, sched, retry, publish_edits, pipeVars>>

\* The scheduler's process_once and the admin's publish_story_now, each in its
\* own process with its own connection, interleaved at their database and
\* chat steps.
NextRace ==
    \/ \E s \in Stories :
            /\ Len(queue) < MaxRows
            /\ Enqueue(<<s>>, 0, Null, FALSE)
    \/ \E id \in RowIds(queue), io_ok \in BOOLEAN :
            /\ Len(chat) < MaxChat
            /\ PO_Begin(id, io_ok)
    \/ \E ok \in BOOLEAN : PO_Send(ok)
    \/ \E mode \in Modes : PO_Store(mode)
    \/ PO_Mark
    \/ \E s \in StoryIds, io_ok \in BOOLEAN :
            /\ Len(chat) < MaxChat
            /\ Len(queue) < MaxRows \/ reuse_existing(queue, _fetch_recent_queue_entry(queue, s, now, config))
            /\ PN_Begin(s, io_ok)
    \/ \E ok \in BOOLEAN : PN_Send(ok)
    \/ \E mode \in Modes : PN_Store(mode)
    \/ PN_Mark

SpecRace == Init /\ [][NextRace]_vars

\* ================================================================ claims

Range(f) == {f[i] : i \in DOMAIN f}
SameKey(i, j) == queue[i].dedup_key = queue[j].dedup_key
IsSent(i) == queue[i].status = "sent"
Dist(a, b) == IF a >= b THEN a - b ELSE b - a

\* C1: any two rows with the same dedup_key that are both 'sent' have
\* sent_at values more than dedup_window_days apart (at most one successful
\* send per dedup_key in a rolling dedup window).  Only rows whose send the
\* platform accepted (message_id set) are counted.
C1_OneSendPerWindow ==
    \A i, j \in RowIds(queue) :
        (/\ i # j /\ SameKey(i, j) /\ IsSent(i) /\ IsSent(j)
         /\ queue[i].message_id # Null /\ queue[j].message_id # Null)
            => Dist(Val(queue[i].sent_at), Val(queue[j].sent_at))
                   > config.dedup_window_days * SecPerDay

\* C2: a row changes status at most once, from 'queued' to 'sent' or
\* 'error'; no call modifies a row that is already 'sent' or 'error', and no
\* row is removed.
C2_TerminalOnce ==
    [][/\ Len(queue') >= Len(queue)
       /\ \A i \in RowIds(queue) :
            /\ queue[i].status # "queued" => queue'[i] = queue[i]
            /\ queue'[i].status \in {"queued", "sent", "error"}]_vars

\* C2 witness: a call has run while an earlier row was already terminal, and
\* both a sent and an error row exist.
C2_Witness ==
    \E i, j \in RowIds(queue) :
        /\ i < j
        /\ queue[i].status = "sent"
        /\ queue[j].status = "error"
        /\ last.row = Some(j)

\* C7: a row process_once has marked 'sent' has a sent_at and a message_id
\* equal to the id of the first chunk the platform accepted for that row.
C7_SentHasMessage ==
    (last.op = "process_once" /\ last.result = "sent")
        => LET r == queue[Val(last.row)]
           IN  /\ r.status = "sent"
               /\ r.sent_at # Null
               /\ r.message_id # Null
               /\ \E k \in 1..Len(chat) :
                    /\ chat[k].row = Val(last.row)
                    /\ chat[k].chunk = 1
                    /\ chat[k].message_id = Val(r.message_id)

\* C9: enqueue_recent_stories inserts no row for a selected story that has a
\* row, of any status, with COALESCE(sent_at, enqueued_at) within the last
\* dedup_window_days, and otherwise exactly one row, with status 'queued';
\* it changes no existing row and inserts nothing for other stories.
InWindow(r, t) == Coalesce(r) >= t - config.dedup_window_days * SecPerDay
NewRowsOf(s) ==
    {i \in (Len(queue) + 1)..Len(queue') : queue'[i].dedup_key = DedupKey(s)}

C9_EnqueueDedup ==
    [][(last'.op = "enqueue" /\ ~last'.dry_run) =>
        /\ SubSeq(queue', 1, Len(queue)) = queue
        /\ \A i \in (Len(queue) + 1)..Len(queue') :
                queue'[i].status = "queued" /\ queue'[i].item_id \in Range(last'.story)
        /\ \A s \in Range(last'.story) :
                Cardinality(NewRowsOf(s)) =
                    IF \E i \in RowIds(queue) :
                            queue[i].dedup_key = DedupKey(s) /\ InWindow(queue[i], now)
                    THEN 0 ELSE 1]_vars

\* C9 witness: one enqueue of stories 1 and 2 skipped story 1, which has an
\* error row inside the window, and inserted a row for story 2.
C9_Witness ==
    /\ last.op = "enqueue"
    /\ last.story = <<1, 2>>
    /\ Len(queue) = 2
    /\ queue[1].item_id = 1 /\ queue[1].status = "error"
    /\ queue[2].item_id = 2 /\ queue[2].status = "queued" /\ queue[2].enqueued_at = now

\* The row a manual publish of story s finds: the newest queued or sent row
\* of the story inside the dedup window.
Found(s) == _fetch_recent_queue_entry(queue, s, now, config)
PublishCall == last'.op = "publish_story_now" /\ ~last'.dry_run
OthersKept(f) ==
    /\ Len(queue') = Len(queue)
    /\ \A i \in RowIds(queue) : i # f => queue'[i] = queue[i]

\* C10 as stated: a manual publish that finds a queued row creates no row and
\* records the outcome on that row; one that finds a sent row sends nothing,
\* changes nothing and returns "already".
C10_ReuseOrAlready ==
    [][PublishCall =>
        \A f \in Found(Val(last'.story)) :
            /\ queue[f].status = "queued" =>
                    /\ OthersKept(f)
                    /\ last'.row = Some(f)
                    /\ queue'[f].status \in {"sent", "error"}
            /\ queue[f].status = "sent" =>
                    /\ UNCHANGED <<queue, chat, publish_map>>
                    /\ last'.result = "already"]_vars

\* C10 amended: the same for a non-dry-run manual publish made with the chat
\* credentials configured; without them the call fails before it touches the
\* queued row, which stays queued.
C10_ReuseOrAlreadyWithCreds ==
    [][PublishCall =>
        \A f \in Found(Val(last'.story)) :
            /\ (queue[f].status = "queued" /\ creds) =>
                    /\ OthersKept(f)
                    /\ last'.row = Some(f)
                    /\ queue'[f].status \in {"sent", "error"}
            /\ (queue[f].status = "queued" /\ ~creds) =>
                    /\ UNCHANGED <<queue, chat, publish_map>>
                    /\ last'.result = "no_creds"
            /\ queue[f].status = "sent" =>
                    /\ UNCHANGED <<queue, chat, publish_map>>
                    /\ last'.result = "already"]_vars

\* C10 witness: a manual publish has sent the story on row 1 while a newer row
\* exists, so row 1 is a row it found and reused.
C10_Witness ==
    /\ last.op = "publish_story_now"
    /\ last.result = "sent"
    /\ last.row = Some(1)
    /\ Len(queue) = 2
    /\ queue[1].message_id # Null

\* C3: with the scheduler out of process_once (after a return, a cancel or a
\* crash), no row is still 'queued' once the platform has accepted a message
\* of its dispatch.
C3_NoQueuedAfterAccept ==
    sched.pc = "idle"
        => \A i \in RowIds(queue) :
               queue[i].status = "queued" => \A k \in 1..Len(chat) : chat[k].row # i

\* The rows with sent_at in the closed window [a, b].
SentIn(a, b) ==
    {i \in RowIds(queue) :
        /\ queue[i].status = "sent"
        /\ queue[i].sent_at # Null
        /\ a <= Val(queue[i].sent_at) /\ Val(queue[i].sent_at) <= b}

\* The instants a window may start at: every instant a row was sent at.
SentInstants == {Val(queue[i].sent_at) : i \in SentIn(0, now)}

\* C4: the rows process_once marked sent inside any 1-hour window number at
\* most max_per_hour, and inside any 24-hour window at most max_per_day.
C4_HourAndDayLimits ==
    \A a \in SentInstants :
        /\ Cardinality(SentIn(a, a + SecPerHour)) <= config.max_per_hour
        /\ Cardinality(SentIn(a, a + SecPerDay)) <= config.max_per_day

\* C4 witness: process_once has just been deferred by the daily limit, the
\* hourly limit having let it through, with max_per_day rows sent.
C4_Witness ==
    /\ last.op = "process_once"
    /\ last.result = "day"
    /\ Cardinality(SentIn(0, now)) = config.max_per_day
    /\ config.max_per_day > config.max_per_hour

\* C5 as stated: in any window of W seconds at most floor(W / interval_sec)
\* rows have their sent_at.
C5_WindowFloor ==
    \A a \in SentInstants : \A b \in SentInstants :
        a <= b => Cardinality(SentIn(a, b)) <= (b - a) \div config.interval_sec

\* C5 amended: in any window of W seconds at most floor(W / interval_sec) + 1
\* rows have their sent_at (sends are interval_sec apart, and a window may
\* start on one).
C5_WindowFloorPlusOne ==
    \A a \in SentInstants : \A b \in SentInstants :
        a <= b => Cardinality(SentIn(a, b)) <= (b - a) \div config.interval_sec + 1

\* C5 witness: two rows sent exactly interval_sec apart.
C5_Witness ==
    \E i, j \in SentIn(0, now) :
        Val(queue[j].sent_at) = Val(queue[i].sent_at) + config.interval_sec

\* The quiet rule in the words of the claim, for the hour h and the setting qh.
ClaimQuiet(h, qh) ==
    /\ qh # Null
    /\ \/ qh[1] < qh[2] /\ qh[1] <= h /\ h < qh[2]
       \/ qh[1] > qh[2] /\ (h >= qh[1] \/ h < qh[2])

ClaimNeverQuiet(qh) == qh = Null \/ qh[1] = qh[2]

\* C6: a non-dry-run process_once called in a quiet hour dispatches nothing
\* and changes no queue row; with start = end or no quiet hours set, quiet
\* hours never block process_once.
C6_QuietHours ==
    [][(last'.op = "process_once" /\ ~last'.dry_run) =>
        /\ ClaimQuiet(LocalHour(now), config.quiet_hours) =>
                /\ queue' = queue /\ chat' = chat /\ publish_map' = publish_map
                /\ last'.result = "quiet"
        /\ ClaimNeverQuiet(config.quiet_hours) => last'.result # "quiet"]_vars

\* C6 witness: process_once returned for quiet hours, in a window that wraps
\* midnight, after midnight, with a queued row that is due.
C6_Witness ==
    /\ last.op = "process_once" /\ ~last.dry_run /\ last.result = "quiet"
    /\ config.quiet_hours # Null
    /\ config.quiet_hours[1] > config.quiet_hours[2]
    /\ LocalHour(now) < config.quiet_hours[2]
    /\ Due(queue, now) # {}

\* What _with_retry has done so far is within the claim: at most 3 calls of
\* the platform, none after a success or another error, a sleep after each
\* rate-limit response, exhaustion exactly after 3 rate-limited calls.
RetryWithinClaim ==
    /\ Len(retry.resps) <= 3
    /\ \A k \in 1..(Len(retry.resps) - 1) : retry.resps[k] = "retry_after"
    /\ LET limited == Cardinality({k \in 1..Len(retry.resps) : retry.resps[k] = "retry_after"})
       IN  retry.sleeps = IF retry.pc = "sleep" THEN limited - 1 ELSE limited
    /\ retry.pc = "done" =>
            /\ retry.result = "ok" <=> retry.resps[Len(retry.resps)] = "ok"
            /\ retry.result = "raised" <=> retry.resps[Len(retry.resps)] = "api_error"
            /\ retry.result = "exhausted" <=>
                    (Len(retry.resps) = 3 /\ retry.resps[3] = "retry_after")
            /\ retry.result \in {"ok", "raised", "exhausted"}

\* C8: send_text, edit_text and reply_text call the platform at most 3 times,
\* return on a success, sleep and try again on a rate limit, raise another
\* error at once, fail with the exhaustion error after 3 rate-limited
\* attempts, and always terminate.
C8_RetryBoundedAndTerminates ==
    /\ []RetryWithinClaim
    /\ (retry.pc = "loop") ~> (retry.pc = "done")

\* C8 witness: a call ended with the exhaustion error after 3 attempts.
C8_Witness ==
    /\ retry.pc = "done"
    /\ retry.result = "exhausted"
    /\ Len(retry.resps) = 3
    /\ retry.sleeps = 3

\* The story of the edit or append just made, and the row it added.
Edited == Val(last'.story)
OneEditRowAdded ==
    /\ Len(publish_edits') = Len(publish_edits) + 1
    /\ SubSeq(publish_edits', 1, Len(publish_edits)) = publish_edits
AddedRow == publish_edits'[Len(publish_edits')]

\* C11: after a successful edit of an item that has a publish_map row, the
\* row's message_id is what it was, and publish_edits has gained exactly one
\* row: action 'edit', the old text, the new text, no error.
C11_EditKeepsMessageId ==
    [][(last'.op = "edit" /\ last'.result = "sent" /\ publish_map[Edited] # Null) =>
        /\ publish_map'[Edited] # Null
        /\ Val(publish_map'[Edited]).message_id = Val(publish_map[Edited]).message_id
        /\ OneEditRowAdded
        /\ AddedRow.action = "edit"
        /\ AddedRow.item_id = Edited
        /\ AddedRow.old_text = Some(Val(publish_map[Edited]).text)
        /\ AddedRow.new_text = Val(last'.text)
        /\ AddedRow.error = Null]_vars

\* C11 witness: a successful edit of a published story: the row holds the
\* published text as old text, and publish_map holds the new text under the
\* message id of the publication.
C11_Witness ==
    /\ last.op = "edit" /\ last.result = "sent"
    /\ Len(publish_edits) = 1
    /\ publish_edits[1].action = "edit" /\ publish_edits[1].error = Null
    /\ publish_edits[1].old_text # Null
    /\ publish_edits[1].old_text # Some(publish_edits[1].new_text)
    /\ \E s \in StoryIds :
            /\ publish_map[s] # Null
            /\ Val(publish_map[s]).text = publish_edits[1].new_text
            /\ \E i \in RowIds(queue) :
                    queue[i].message_id = Some(Val(publish_map[s]).message_id)

\* C12: when the chat call of an edit or an append fails, exactly one
\* publish_edits row holding the error is added, publish_map is unchanged,
\* and the call ends with the error.
C12_FailureRecorded ==
    [][(last'.op \in {"edit", "append"} /\ last'.result = "error") =>
        /\ OneEditRowAdded
        /\ AddedRow.action = last'.op
        /\ AddedRow.item_id = Edited
        /\ AddedRow.new_text = Val(last'.text)
        /\ AddedRow.error # Null
        /\ AddedRow.reply_msg_id = Null
        /\ publish_map' = publish_map
        /\ chat' = chat]_vars

\* C12 witness: a failed append to a published story, recorded with its error.
C12_Witness ==
    /\ last.op = "append" /\ last.result = "error"
    /\ Len(publish_edits) = 1
    /\ publish_edits[1].action = "append" /\ publish_edits[1].error # Null
    /\ publish_map[Val(last.story)] # Null

\* C13 as stated: an edit or append of an item without a publish_map row
\* makes no chat call (it neither succeeds nor fails in one) and writes
\* nothing to publish_map or publish_edits.
C13_RejectedWithoutMapRow ==
    [][(last'.op \in {"edit", "append"} /\ publish_map[Edited] = Null) =>
        /\ last'.result \notin {"sent", "error"}
        /\ UNCHANGED <<chat, publish_map, publish_edits, pipeVars>>]_vars

\* C13 amended: an edit or append of an item that has neither a publish_map
\* row nor a sent publish_queue row with a message id is rejected, with no
\* chat call and no write to publish_map or publish_edits.
C13_RejectedWithoutTarget ==
    [][(/\ last'.op \in {"edit", "append"}
        /\ publish_map[Edited] = Null
        /\ ~\E i \in RowIds(queue) :
                /\ queue[i].item_id = Edited /\ queue[i].status = "sent"
                /\ queue[i].message_id # Null) =>
        /\ last'.result = "rejected"
        /\ UNCHANGED <<chat, publish_map, publish_edits, pipeVars>>]_vars

\* C13 witness: an edit was rejected for a story whose only queue row was
\* marked sent without a message, while another story is published.
C13_Witness ==
    /\ last.op = "edit" /\ ~last.dry_run /\ last.result = "rejected"
    /\ publish_map[Val(last.story)] = Null
    /\ \E i \in RowIds(queue) :
            /\ queue[i].item_id = Val(last.story)
            /\ queue[i].status = "sent" /\ queue[i].message_id = Null

\* C14: every chunk _split_messages returns is at most the limit long, and a
\* single line longer than the limit gives one chunk, cut to exactly the limit.
C14_ChunksWithinLimit ==
    split.pc = "done" =>
        /\ \A k \in 1..Len(split.chunks) : JoinedLength(split.chunks[k]) <= split.limit
        /\ (Len(split.lines) = 1 /\ split.lines[1].len > split.limit) =>
                /\ Len(split.chunks) = 1
                /\ JoinedLength(split.chunks[1]) = split.limit

\* The first chunk of the dispatch that sent message i: the nearest message
\* at or before i that is a chunk 1.
AnchorOf(i) ==
    LET firsts == {j \in 1..i : chat[j].chunk = 1}
    IN  CHOOSE j \in firsts : \A k \in firsts : k <= j

\* C15: every chunk after the first follows the chunk before it and is a reply
\* to the first chunk's message (the anchor), and the anchor's id is the one
\* stored in publish_map and on the queue row.
C15_RepliesToAnchor ==
    /\ \A i \in 1..Len(chat) :
          chat[i].chunk > 1 =>
              /\ i > 1
              /\ chat[i - 1].story = chat[i].story
              /\ chat[i - 1].chunk = chat[i].chunk - 1
              /\ chat[i].reply_to = Some(chat[AnchorOf(i)].message_id)
    /\ \A s \in Stories :
          publish_map[s] # Null =>
              \E i \in 1..Len(chat) :
                  /\ chat[i].message_id = Val(publish_map[s]).message_id
                  /\ chat[i].story = s /\ chat[i].chunk = 1
    /\ \A id \in RowIds(queue) :
          queue[id].message_id # Null =>
              \E i \in 1..Len(chat) :
                  /\ chat[i].message_id = Val(queue[id].message_id)
                  /\ chat[i].story = queue[id].item_id /\ chat[i].chunk = 1

\* C15 without the reply target: the order of the chunks and the stored ids.
C15_OrderAndStoredAnchor ==
    /\ \A i \in 1..Len(chat) :
          chat[i].chunk > 1 =>
              /\ i > 1
              /\ chat[i - 1].story = chat[i].story
              /\ chat[i - 1].chunk = chat[i].chunk - 1
              /\ chat[i].reply_to = Some(chat[i - 1].message_id)
    /\ \A s \in Stories :
          publish_map[s] # Null =>
              \E i \in 1..Len(chat) :
                  /\ chat[i].message_id = Val(publish_map[s]).message_id
                  /\ chat[i].story = s /\ chat[i].chunk = 1
    /\ \A id \in RowIds(queue) :
          queue[id].message_id # Null =>
              \E i \in 1..Len(chat) :
                  /\ chat[i].message_id = Val(queue[id].message_id)
                  /\ chat[i].story = queue[id].item_id /\ chat[i].chunk = 1

HiddenIds == {antidup.hidden[k].id : k \in 1..Len(antidup.hidden)}

UrlHits(rows, call) == {i \in 1..Len(rows) : call.url # 0 /\ rows[i].url = Some(call.url)}
NameHits(rows, call) == {i \in 1..Len(rows) : SameIgnoringCase(rows[i].name, call.name)}

\* C17: no two rows of tags have the same non-empty url; a call of upsert_tag
\* whose url is that of a row, or failing that whose name is that of a row but
\* for case, returns that row's id with created = false and inserts nothing.
C17_UpsertIdentity ==
    /\ [](\A i, j \in 1..Len(tags.rows) :
            (i # j /\ tags.rows[i].url # Null) => tags.rows[i].url # tags.rows[j].url)
    /\ [][tags' # tags =>
            LET call == Val(tags'.call)
                by_url == UrlHits(tags.rows, call)
                by_name == NameHits(tags.rows, call)
            IN  /\ by_url # {} =>
                        /\ call.id \in by_url /\ ~call.created /\ ~call.raised
                        /\ Len(tags'.rows) = Len(tags.rows)
                /\ (by_url = {} /\ by_name # {}) =>
                        /\ call.id \in by_name /\ ~call.created /\ ~call.raised
                        /\ Len(tags'.rows) = Len(tags.rows)]_vars

\* C17 for names in ASCII letters only; holds.
C17_UpsertIdentityAscii ==
    /\ [](\A i, j \in 1..Len(tags.rows) :
            (i # j /\ tags.rows[i].url # Null) => tags.rows[i].url # tags.rows[j].url)
    /\ [][tags' # tags =>
            LET call == Val(tags'.call)
                by_url == UrlHits(tags.rows, call)
                by_name == NameHits(tags.rows, call)
            IN  /\ by_url # {} =>
                        /\ call.id \in by_url /\ ~call.created /\ ~call.raised
                        /\ Len(tags'.rows) = Len(tags.rows)
                /\ (by_url = {} /\ by_name # {} /\ call.name.script = "latin") =>
                        /\ call.id \in by_name /\ ~call.created /\ ~call.raised
                        /\ Len(tags'.rows) = Len(tags.rows)]_vars

NoType == {Null, Some(""), Some("unknown")}

\* C18: a call of upsert_tag changes the type of a row only from unknown or
\* empty to a type, and never changes a type of sport, tournament, team or
\* player.
C18_TypeOnlyUpgrades ==
    [][\A i \in 1..Len(tags.rows) :
            LET old == tags.rows[i].type
                new == tags'.rows[i].type
            IN  /\ old \in {Some(t) : t \in _KNOWN_TYPES} => new = old
                /\ new # old => (old \in NoType /\ new \notin NoType)]_vars

\* C18 witness: a call with type player found a row of type team, and the row
\* is still a team.
C18_Witness ==
    /\ tags.call # Null
    /\ ~Val(tags.call).created /\ ~Val(tags.call).raised
    /\ Val(tags.call).tag_type = "player"
    /\ tags.rows[Val(tags.call).id].type = Some("team")

StoriesOf(a) == {l[1] : l \in {m \in story_articles : m[2] = a}}
ArticlesOf(s) == {l[2] : l \in {m \in story_articles : m[1] = s}}

\* C19: when a run of the clusterer has committed, every story has at least
\* two articles linked to it.
C19_StoryHasTwoArticles ==
    build.pc = "idle" => \A s \in 1..Len(stories) : Cardinality(ArticlesOf(s)) >= 2

\* C19 witness: a run made after the last article arrived has created a
\* second story and committed, and that story has exactly two articles.
C19_Witness ==
    /\ build.pc = "idle"
    /\ Len(stories) = 2
    /\ stories[2].created_at = news.clock
    /\ Cardinality(ArticlesOf(2)) = 2

\* C20: every article is linked to at most one story.
C20_OneStoryPerArticle ==
    \A a \in 1..Len(news.articles) : Cardinality(StoriesOf(a)) <= 1

\* C23: normalize_url is idempotent: applied to its own result it gives that
\* result again.
C23_Idempotent ==
    \A k \in 2..Len(norm.out) : norm.out[k] = norm.out[1]

\* The rows of table news whose URL has the canonical form nurl.
CanonicalRows(rows, nurl) == {i \in 1..Len(rows) : normalize_url(rows[i].url) = nurl}

\* C21 (rows): no two rows of table news have the same URL, and an upsert of
\* an article whose normalized URL is in the table returns that row's id with
\* inserted = FALSE, adds no row, deletes none and changes no row's URL.
C21_ExistingUrlKept ==
    /\ [](\A i, j \in 1..Len(feed.rows) : feed.rows[i].url = feed.rows[j].url => i = j)
    /\ [][LET call == Val(feed'.call)
              found == IF call.article.url = Null THEN {}
                       ELSE UrlRows(feed.rows, normalize_url(Val(call.article.url)))
          IN  found # {} =>
                /\ call.news_id \in {Some(i) : i \in found}
                /\ ~call.inserted
                /\ Len(feed'.rows) = Len(feed.rows)
                /\ \A i \in 1..Len(feed.rows) : feed'.rows[i].url = feed.rows[i].url]_vars

\* C21: after any sequence of upsert_news calls no two rows of table news
\* share a canonical URL and every stored URL is a fixed point of
\* normalize_url; an upsert of an article whose normalized URL is in the table
\* returns that row's id with inserted = FALSE and adds or deletes no row.
C21_CanonicalUnique ==
    /\ [](\A i \in 1..Len(feed.rows) :
            /\ normalize_url(feed.rows[i].url) = feed.rows[i].url
            /\ CanonicalRows(feed.rows, normalize_url(feed.rows[i].url)) = {i})
    /\ C21_ExistingUrlKept

RECURSIVE Listed(_)
\* The normalized links of the items of the pages, in the order of the listing.
Listed(pages) ==
    IF pages = <<>> THEN <<>>
    ELSE LET page == pages[Len(pages)]
             items == IF page = Null THEN <<>> ELSE SelectSeq(Val(page), LAMBDA it : it # Null)
         IN  Listed(SubSeq(pages, 1, Len(pages) - 1))
                \o [i \in 1..Len(items) |-> normalize_url(Val(items[i]))]

\* Where the anchor stands among the links of the pages.
AnchorAt(pages, anchor_url) ==
    IF anchor_url = Null THEN {}
    ELSE {i \in 1..Len(Listed(pages)) : Listed(pages)[i] = normalize_url(Val(anchor_url))}

\* C22: collect_until_anchor_by_url returns, in the order of the listing, the
\* items before the first occurrence of the anchor on the pages it fetched and
\* nothing else; the anchor is on no page but the last one fetched, and
\* without an anchor on them no more than max_pages pages are fetched.
C22_ItemsBeforeAnchor ==
    crawl.pc = "done" =>
        LET listed == Listed(crawl.fetched)
            at == AnchorAt(crawl.fetched, crawl.anchor_url)
            before == AnchorAt(SubSeq(crawl.fetched, 1, Len(crawl.fetched) - 1),
                               crawl.anchor_url)
        IN  /\ Len(crawl.fetched) <= crawl.max_pages
            /\ before = {}
            /\ crawl.found_anchor = (at # {})
            /\ at = {} => crawl.all_metas = listed /\ Len(crawl.fetched) = crawl.max_pages
            /\ at # {} => crawl.all_metas =
                            SubSeq(listed, 1, (CHOOSE i \in at : \A j \in at : i <= j) - 1)

\* C22 witness: with two pages allowed the anchor was found on the first one,
\* as its second link; the link before it is returned and no second page was
\* fetched.
C22_Witness ==
    /\ crawl.pc = "done"
    /\ crawl.max_pages = 2
    /\ crawl.found_anchor
    /\ Len(crawl.fetched) = 1
    /\ AnchorAt(crawl.fetched, crawl.anchor_url) = {2}
    /\ Len(crawl.all_metas) = 1

\* A step of a command called with dry_run set.
DryRunStep ==
    \/ \E ss \in StorySelections : Enqueue(ss, 0, Null, TRUE)
    \/ \E mode \in Modes, id \in RowIds(queue) : ProcessOnce(TRUE, mode, id, TRUE, 0, 0)
    \/ ProcessOnceSkip(TRUE)
    \/ \E s \in StoryIds, n \in EditTexts, mode \in Modes, explicit \in BOOLEAN,
          len_ok \in BOOLEAN :
            \/ EditStory(s, n, mode, explicit, len_ok, TRUE, TRUE, TRUE)
            \/ AppendStory(s, n, mode, explicit, len_ok, TRUE, TRUE)
    \/ \E since_days \in SinceDays, limit \in Limits : BuildRun(since_days, limit, TRUE)
    \/ build.dry_run /\ (BuildCluster \/ BuildCommit)

\* C24: a step of enqueue_recent_stories, process_once, the clusterer or the
\* edit/append command with dry_run set sends nothing to the chat and leaves
\* publish_queue, publish_map, publish_edits, stories and story_articles as
\* they were.
C24_DryRunWritesNothing ==
    [][DryRunStep =>
        UNCHANGED <<chat, queue, publish_map, publish_edits, stories, story_articles>>]_vars

\* C24 witness: a dry run of the clusterer has gone through a cluster it would
\* make a story of, with no story in the table, and the last call of the
\* publisher was a dry-run process_once for a row that is still queued.
C24_Witness ==
    /\ build.pc = "commit" /\ build.dry_run
    /\ build.new_stories = 1 /\ stories = <<>> /\ story_articles = {}
    /\ last.op = "process_once" /\ last.dry_run /\ last.result = "dry"
    /\ queue[Val(last.row)].status = "queued"

\* The dispatches of queue row id that reached the chat: its first chunks.
SendsOf(id) == {m \in 1..Len(chat) : chat[m].row = id /\ chat[m].chunk = 1}

\* C25: with process_once and publish_story_now interleaved at their database
\* and chat steps, the message of a queue row is sent at most once, and a row
\* marked sent is never overwritten with error.
C25_SentOnceAndKept ==
    /\ [](\A id \in RowIds(queue) : Cardinality(SendsOf(id)) <= 1)
    /\ [][\A id \in RowIds(queue) :
            queue[id].status = "sent" => queue'[id].status = "sent"]_vars

\* C26 (stories): no two stories are made of the same articles.
C26_OneStoryPerCluster ==
    \A s, t \in 1..Len(stories) : ArticlesOf(s) = ArticlesOf(t) => s = t

\* C26: two runs of the clusterer never overlap (one is idle whenever the other
\* is between reading the window and committing), so that no two stories are
\* created for the same cluster.
C26_RunsNeverOverlap ==
    /\ build.pc = "idle" \/ rival.pc = "idle"
    /\ C26_OneStoryPerCluster

\* The row of a process_once call that went as far as the dispatch.
Dispatched(call) ==
    call.op = "process_once" /\ ~call.dry_run /\ call.result \in {"sent", "error"}

\* The queued rows whose scheduled_at is null or not after t.
Eligible(q, t) ==
    {j \in RowIds(q) :
        q[j].status = "queued" /\ (q[j].scheduled_at = Null \/ Val(q[j].scheduled_at) <= t)}

\* C27: the row process_once dispatches is queued, its scheduled_at is null or
\* not after now, no eligible row has a higher priority, and none of the same
\* priority was enqueued earlier; a row scheduled for later is not dispatched.
C27_DispatchOrder ==
    [][Dispatched(last') =>
        LET id == Val(last'.row)
        IN  /\ id \in Eligible(queue, now)
            /\ \A j \in Eligible(queue, now) :
                    /\ queue[j].priority <= queue[id].priority
                    /\ queue[j].priority = queue[id].priority =>
                            queue[j].enqueued_at >= queue[id].enqueued_at]_vars

\* C27 witness: process_once sent row 2 while row 1, enqueued earlier with a
\* lower priority, is still queued and due.
C27_Witness ==
    /\ Dispatched(last) /\ last.result = "sent" /\ last.row = Some(2)
    /\ 1 \in Eligible(queue, now)
    /\ queue[1].priority < queue[2].priority
    /\ queue[1].enqueued_at < queue[2].enqueued_at

\* C27 witness (schedule): process_once sent row 2 while row 1, of a higher
\* priority and scheduled for later, stays queued.
C27_WitnessFuture ==
    /\ Dispatched(last) /\ last.result = "sent" /\ last.row = Some(2)
    /\ queue[1].status = "queued"
    /\ queue[1].priority > queue[2].priority
    /\ queue[1].scheduled_at # Null /\ Val(queue[1].scheduled_at) > now

\* A process_once call that was deferred by the interval, the hourly or the
\* daily limit; call.row is the row _dequeue_next had selected.
Deferred(call) ==
    call.op = "process_once" /\ ~call.dry_run /\ call.result \in {"interval", "hour", "day"}

\* Row j comes before row i in ORDER BY priority DESC, enqueued_at ASC, or
\* ties with it.
Ahead(q, j, i) ==
    \/ q[j].priority > q[i].priority
    \/ (q[j].priority = q[i].priority /\ q[j].enqueued_at <= q[i].enqueued_at)

\* A deferral sends nothing and leaves the queue and publish_map as they are.
DeferralKeepsRow ==
    (Deferred(last') /\ last' # last) => UNCHANGED <<queue, chat, publish_map>>

\* The step is a call of process_once, and the call before it was deferred
\* with nothing but sleep in between.
NextAfterDeferral == Deferred(last) /\ last'.op = "process_once" /\ now' = now

C29_SentAtApart ==
    \A i, j \in SentRows(queue) :
        (i # j /\ Val(queue[i].sent_at) <= Val(queue[j].sent_at))
            => Val(queue[j].sent_at) - Val(queue[i].sent_at) >= config.interval_sec

\* C29 witness: two rows are sent, and process_once has just been deferred by
\* the interval because the later of them is less than interval_sec old.
C29_Witness ==
    /\ last.op = "process_once" /\ ~last.dry_run
    /\ last.result = "interval"
    /\ Cardinality(SentRows(queue)) >= 2
    /\ config.interval_sec > 0


\* What a successful edit keeps apart from sent_at: the row's message_id, the
\* publish_map rows of the other items, and publish_queue.
EditKeepsTheRest ==
    (last'.op = "edit" /\ last'.result = "sent" /\ publish_map[Edited] # Null) =>
        /\ publish_map'[Edited] # Null
        /\ Val(publish_map'[Edited]).message_id = Val(publish_map[Edited]).message_id
        /\ \A s \in StoryIds \ {Edited} : publish_map'[s] = publish_map[s]
        /\ queue' = queue

C30_EditKeepsTheRest == [][EditKeepsTheRest]_vars

\* C30: a successful edit changes only text and mode in the item's
\* publish_map row: message_id and sent_at keep their values, and no other
\* publish_map row and no publish_queue row is changed.
C30_EditChangesTextAndMode ==
    [][/\ EditKeepsTheRest
       /\ (last'.op = "edit" /\ last'.result = "sent" /\ publish_map[Edited] # Null) =>
            Val(publish_map'[Edited]).sent_at = Val(publish_map[Edited]).sent_at]_vars


\* The reply an append has just added to the chat.
NewReply == chat'[Len(chat')]

\* C31: an append for an item that has a publish_map row is sent as a reply
\* to the message_id stored in that row, however many edits and appends came
\* before; it adds exactly one publish_edits row, with action 'append' and
\* the id of the new reply, and leaves publish_map as it was.
C31_AppendRepliesToAnchor ==
    [][(last'.op = "append" /\ last'.result = "sent" /\ publish_map[Edited] # Null) =>
        /\ Len(chat') = Len(chat) + 1
        /\ SubSeq(chat', 1, Len(chat)) = chat
        /\ NewReply.reply_to = Some(Val(publish_map[Edited]).message_id)
        /\ NewReply.message_id \notin {chat[i].message_id : i \in 1..Len(chat)}
        /\ OneEditRowAdded
        /\ AddedRow.action = "append"
        /\ AddedRow.item_id = Edited
        /\ AddedRow.message_id = Val(publish_map[Edited]).message_id
        /\ AddedRow.reply_msg_id = Some(NewReply.message_id)
        /\ AddedRow.error = Null
        /\ publish_map' = publish_map]_vars

\* C31 witness: a story was published, edited and appended to, and a second
\* append has gone out: both replies answer the message id in publish_map,
\* not each other, and publish_edits holds the two reply ids.
C31_Witness ==
    /\ last.op = "append" /\ last.result = "sent"
    /\ Len(publish_edits) = 3
    /\ publish_edits[1].action = "edit" /\ publish_edits[1].error = Null
    /\ publish_edits[2].action = "append" /\ publish_edits[2].error = Null
    /\ publish_edits[3].action = "append" /\ publish_edits[3].error = Null
    /\ \E s \in StoryIds :
        /\ publish_map[s] # Null
        /\ \A k \in 1..3 : publish_edits[k].item_id = s
        /\ publish_edits[2].reply_msg_id # publish_edits[3].reply_msg_id
        /\ \A k \in {2, 3} : \E i \in 1..Len(chat) :
                /\ Some(chat[i].message_id) = publish_edits[k].reply_msg_id
                /\ chat[i].reply_to = Some(Val(publish_map[s]).message_id)


\* C32: with the chat credentials missing, a process_once without --dry-run
\* sends nothing and leaves the status of every publish_queue row as it was.
C32_NoCredsNoStatusChange ==
    [][(~creds /\ last'.op = "process_once" /\ ~last'.dry_run) =>
        /\ chat' = chat
        /\ Len(queue') = Len(queue)
        /\ \A i \in RowIds(queue) : queue'[i].status = queue[i].status]_vars

\* What does hold with the credentials missing: nothing is sent, publish_map
\* is not written, and no row other than the selected one is changed.
C32_NoCredsNothingSent ==
    [][(~creds /\ last'.op = "process_once" /\ ~last'.dry_run) =>
        /\ chat' = chat
        /\ publish_map' = publish_map
        /\ Len(queue') = Len(queue)
        /\ \A i \in RowIds(queue) :
                \/ queue'[i] = queue[i]
                \/ /\ last'.row = Some(i)
                   /\ queue[i].status = "queued" /\ queue'[i].status = "error"
                   /\ queue'[i].error = Some("dispatch failed")]_vars


\* The input lines the chunks hold, in the order in which joining the chunks
\* with newlines gives them.
RECURSIVE JoinedSources(_)
JoinedSources(chunks) ==
    IF chunks = <<>> THEN <<>>
    ELSE [k \in 1..Len(chunks[1]) |-> chunks[1][k].src] \o JoinedSources(Tail(chunks))

\* C33: when no line is longer than the limit, the chunks of _split_messages
\* joined with newlines are the input lines joined with newlines: every line,
\* blank ones included, once and in its place (trailing whitespace aside).
C33_JoinGivesLines ==
    (split.pc = "done" /\ \A i \in 1..Len(split.lines) : split.lines[i].len <= split.limit) =>
        /\ JoinedSources(split.chunks) = [i \in 1..Len(split.lines) |-> i]
        /\ \A k \in 1..Len(split.chunks) : \A j \in 1..Len(split.chunks[k]) :
                /\ ~split.chunks[k][j].cut
                /\ split.chunks[k][j].len = split.lines[split.chunks[k][j].src].len

\* What does hold: the lines that are not blank are all there, once, in
\* order and uncut; only blank lines are missing.
C33_NonBlankLinesKept ==
    (split.pc = "done" /\ \A i \in 1..Len(split.lines) : split.lines[i].len <= split.limit) =>
        LET got == JoinedSources(split.chunks)
        IN  /\ \A a, b \in 1..Len(got) : a < b => got[a] < got[b]
            /\ \A i \in 1..Len(split.lines) :
                    split.lines[i].len > 0 => \E a \in 1..Len(got) : got[a] = i


\* The rule of C34 for the articles at positions i and k of the input: title
\* signatures with Jaccard >= 0.90, or >= 0.80 and equal entity signatures
\* that are not null.
NearDuplicates(i, k) ==
    LET a == antidup.articles[i]
        b == antidup.articles[k]
        score == jaccard(signature_tokens(a.title_sig), signature_tokens(b.title_sig))
    IN  \/ AtLeast(score, JACCARD_STRICT)
        \/ /\ AtLeast(score, JACCARD_ENTITY)
           /\ a.entity_sig # Null /\ a.entity_sig = b.entity_sig

\* The kept articles that come before article i and are its near-duplicates.
KeptTwins(i) == {k \in SetOf(antidup.kept) : k < i /\ NearDuplicates(i, k)}

\* The entity signatures are what entity_signature returns: None or a
\* signature that is not empty.
FromEntitySignature ==
    \A i \in 1..Len(antidup.articles) : antidup.articles[i].entity_sig # Some(0)

\* C34: filter_near_duplicates hides an article exactly when an already kept
\* article is its near-duplicate (Jaccard >= 0.90, or >= 0.80 with an equal
\* non-null entity signature), duplicate_of is the first such kept article,
\* visible and hidden hold every input article exactly once, visible keeps
\* the input order, and the first article is visible.
C34_HiddenExactlyNearDuplicates ==
    (antidup.pc = "done" /\ FromEntitySignature) =>
        LET n == Len(antidup.articles)
            kept == antidup.kept
            hidden == antidup.hidden
        IN  /\ \A i \in 1..n : (i \in HiddenIds) <=> (KeptTwins(i) # {})
            /\ \A h \in 1..Len(hidden) :
                    /\ hidden[h].duplicate_of \in KeptTwins(hidden[h].id)
                    /\ \A k \in KeptTwins(hidden[h].id) : hidden[h].duplicate_of <= k
            /\ Len(kept) + Len(hidden) = n
            /\ SetOf(kept) \cup HiddenIds = 1..n
            /\ \A a, b \in 1..Len(kept) : a < b => kept[a] < kept[b]
            /\ n >= 1 => kept[1] = 1

\* C34 witness: three articles; the third is hidden by the entity rule (a
\* score under 0.90) as a duplicate of the second, the first being kept and
\* no near-duplicate of it.
C34_Witness ==
    /\ antidup.pc = "done" /\ FromEntitySignature
    /\ Len(antidup.articles) = 3
    /\ antidup.kept = <<1, 2>>
    /\ Len(antidup.hidden) = 1
    /\ antidup.hidden[1].id = 3 /\ antidup.hidden[1].duplicate_of = 2
    /\ antidup.hidden[1].entity_match
    /\ ~AtLeast(antidup.hidden[1].jaccard, JACCARD_STRICT)
    /\ ~NearDuplicates(3, 1)


\* The top tokens by count with ties broken by the order of the tokens.
LexTop(tokens, top) ==
    {w \in SetOf(tokens) :
        Cardinality({v \in SetOf(tokens) :
            \/ CountOf(tokens, v) > CountOf(tokens, w)
            \/ CountOf(tokens, v) = CountOf(tokens, w) /\ v < w}) < top}

\* C35: two titles with the same multiset of tokens get the same title_sig
\* whatever the order of the words, the kept tokens being the `top` most
\* frequent with ties broken by lexicographic order.
C35_OrderIndependent ==
    sig.pc = "compared" =>
        /\ sig.reordered_sig = sig.title_sig
        /\ SetOf(sig.title_sig) = LexTop(sig.tokens, SigTop)

\* What does hold: the signature is sorted, and titles with no more than
\* `top` distinct tokens get the same signature in any order.
C35_FewTokensOrderIndependent ==
    sig.pc = "compared" =>
        /\ \A a, b \in 1..Len(sig.title_sig) : a < b => sig.title_sig[a] < sig.title_sig[b]
        /\ Cardinality(SetOf(sig.tokens)) <= SigTop => sig.reordered_sig = sig.title_sig


\* The graph of C36 on the items given to union_clusters: two items are
\* joined when they share a sport or tournament bucket, or both have none,
\* and at least two of three hold: title Jaccard >= 0.6, a common tag id,
\* both publication times present and at most 6 hours apart.
Joined(i, k) ==
    LET a == pairing.items[i]
        b == pairing.items[k]
        buckets_a == a.sports \cup a.tournaments
        buckets_b == b.sports \cup b.tournaments
        both == a.tokens \cap b.tokens
        either == a.tokens \cup b.tokens
        title == either # {} /\ 10 * Cardinality(both) >= 6 * Cardinality(either)
        tag == a.entities \cap b.entities # {}
        time == /\ a.published # Null /\ b.published # Null
                /\ Val(a.published) - Val(b.published) <= 6
                /\ Val(b.published) - Val(a.published) <= 6
    IN  /\ i # k
        /\ buckets_a \cap buckets_b # {} \/ (buckets_a = {} /\ buckets_b = {})
        /\ (title /\ tag) \/ (title /\ time) \/ (tag /\ time)

\* A connected component: it cannot be cut in two parts with no pair joined
\* across, and no item outside is joined to one inside.
ConnectedComponent(c) ==
    /\ c # {}
    /\ \A part \in SUBSET c :
            (part # {} /\ part # c) => \E i \in part, k \in c \ part : Joined(i, k)
    /\ \A i \in c, k \in (1..Len(pairing.items)) \ c : ~Joined(i, k)

\* C36: the clusters of union_clusters and build_clusters are exactly the
\* connected components of two items or more of that graph, and no item is
\* in two clusters.
C36_ClustersAreComponents ==
    pairing.pc = "done" =>
        /\ SetOf(pairing.clusters) =
              {c \in SUBSET (1..Len(pairing.items)) :
                  Cardinality(c) >= 2 /\ ConnectedComponent(c)}
        /\ \A a, b \in 1..Len(pairing.clusters) :
                a # b => pairing.clusters[a] \cap pairing.clusters[b] = {}

\* C36 witness: three items; the first and the third are joined only through
\* the second (a chain), and all three are one cluster.
C36_Witness ==
    /\ pairing.pc = "done"
    /\ Len(pairing.items) = 3
    /\ Joined(1, 2) /\ Joined(2, 3) /\ ~Joined(1, 3)
    /\ pairing.clusters = <<{1, 2, 3}>>

\* C36 witness: two items with equal titles and equal publication times stay
\* apart, one being in a sport's bucket and the other in none.
C36_WitnessBuckets ==
    /\ pairing.pc = "done"
    /\ Len(pairing.items) = 3
    /\ pairing.items[1].tokens = pairing.items[2].tokens
    /\ pairing.items[1].published = pairing.items[2].published
    /\ pairing.items[1].published # Null
    /\ pairing.items[1].sports # {} /\ pairing.items[2].sports = {}
    /\ pairing.clusters = <<>>


\* ------------------------------------------------------------------- C37

\* The turn of process_clusters for a cluster that has no near-duplicate
\* story, whose members share no story, and of which a member is linked.
ExpandsCluster ==
    /\ build.pc = "clusters"
    /\ build'.k = build.k + 1
    /\ LET cluster == build.clusters[build.k]
       IN  /\ NearDuplicateStories(news.articles, stories, story_articles,
                                   cluster[1], news.clock) = {}
           /\ SharedStories(cluster, build.assignments) = {}
           /\ \E k \in 1..Len(cluster) : build.assignments[cluster[k]] # {}

\* The stories linked to any member of the cluster of this turn
StoriesOfMembers ==
    UNION {build.assignments[a] : a \in SetOf(build.clusters[build.k])}

\* The stories of the first member of the cluster that is linked at all
StoriesOfFirstLinked ==
    LET cluster == build.clusters[build.k]
        k == Least({j \in 1..Len(cluster) : build.assignments[cluster[j]] # {}})
    IN  build.assignments[cluster[k]]

\* The cluster of this turn is attached to story s: ensure_story_exists
\* returns s and creates nothing, and outside a dry run every member is
\* linked to s afterwards.
AttachedTo(s) ==
    LET cluster == build.clusters[build.k]
    IN  /\ ensure_story_exists(cluster, build.assignments, build.dry_run, Null,
                               Len(stories) + 1) = [story_id |-> Some(s), created |-> FALSE]
        /\ Len(stories') = Len(stories)
        /\ ~build.dry_run => \A a \in SetOf(cluster) : <<s, a>> \in story_articles'
        /\ build.dry_run => story_articles' = story_articles

\* C37 as stated: such a cluster is attached to the lowest story id among all
\* the stories linked to any of its members.
C37_LowestOfAllMembers ==
    [][ExpandsCluster => AttachedTo(Least(StoriesOfMembers))]_vars

\* C37, amended: such a cluster is attached to the lowest story id among the
\* stories of its first linked member, the members taken newest first.
C37_LowestOfFirstLinked ==
    [][ExpandsCluster => AttachedTo(Least(StoriesOfFirstLinked))]_vars


\* C37 witness: a turn has attached a cluster without a near-duplicate story
\* to a story all of whose members are now linked, no story was created, and
\* a member is also linked to a story with a lower id.
C37_Witness ==
    /\ build.pc \in {"clusters", "commit"}
    /\ build.k > 1
    /\ ~build.dry_run
    /\ build.new_stories = 0
    /\ build.links_created > 0
    /\ LET cluster == build.clusters[build.k - 1]
       IN  /\ NearDuplicateStories(news.articles, stories, story_articles,
                                   cluster[1], news.clock) = {}
           /\ \E s \in 1..Len(stories) :
                /\ \A a \in SetOf(cluster) : <<s, a>> \in story_articles
                /\ \E a \in SetOf(cluster), t \in 1..(s - 1) : <<t, a>> \in story_articles


\* ------------------------------------------------------------------- C38

\* A call with prefer_existing=true has returned.
PreferredExisting == assign.pc = "done" /\ assign.prefer_existing

\* result["conflicts"] has an entry for the slot
ConflictReported(etype) ==
    \E k \in 1..Len(assign.conflicts) : assign.conflicts[k].type = etype

PriorAmong(etype) ==
    /\ assign.existing_values[etype] # Null
    /\ Val(assign.existing_values[etype]) \in SetOf(assign.resolved[etype])

SeveralDistinct(etype) == Cardinality(SetOf(assign.resolved[etype])) > 1

\* The slot in news_entity_assignments after the call
SlotOf(etype) == IF assign.row = Null THEN Null ELSE Val(assign.row)[etype]

\* C38 as stated: with prefer_existing=true a slot with candidates keeps the
\* prior assignment when it is among the candidates; otherwise it is set to
\* the first candidate, with a conflict when there are several distinct ones.
C38_KeptOnlyAmongCandidates ==
    PreferredExisting =>
        \A etype \in EntityTypes :
            assign.resolved[etype] # <<>> =>
                IF PriorAmong(etype)
                THEN SlotOf(etype) = assign.existing_values[etype]
                ELSE /\ SlotOf(etype) = Some(assign.resolved[etype][1])
                     /\ SeveralDistinct(etype) => ConflictReported(etype)

\* C38, amended: with prefer_existing=true a slot with candidates keeps its
\* prior assignment whenever there is one, with a conflict exactly when it is
\* not among the candidates; with no prior assignment it is set to the first
\* candidate, with a conflict exactly when there are several distinct ones.
C38_PriorAlwaysKept ==
    PreferredExisting =>
        \A etype \in EntityTypes :
            assign.resolved[etype] # <<>> =>
                IF assign.existing_values[etype] # Null
                THEN /\ SlotOf(etype) = assign.existing_values[etype]
                     /\ ConflictReported(etype) <=> ~PriorAmong(etype)
                ELSE /\ SlotOf(etype) = Some(assign.resolved[etype][1])
                     /\ ConflictReported(etype) <=> SeveralDistinct(etype)

\* C38 witness: a call with prefer_existing=true met a slot whose prior
\* assignment is not among its candidates, kept it and reported a conflict.
C38_Witness ==
    /\ PreferredExisting
    /\ \E etype \in EntityTypes :
         /\ assign.resolved[etype] # <<>>
         /\ assign.existing_values[etype] # Null
         /\ ~PriorAmong(etype)
         /\ SlotOf(etype) = assign.existing_values[etype]
         /\ ConflictReported(etype)

\* C38 witness: a slot without a prior assignment got the first of several
\* distinct candidates.
C38_WitnessFirst ==
    /\ PreferredExisting
    /\ \E etype \in EntityTypes :
         /\ assign.existing_values[etype] = Null
         /\ SeveralDistinct(etype)
         /\ SlotOf(etype) = Some(assign.resolved[etype][1])
         /\ ConflictReported(etype)


\* ------------------------------------------------------------------- C39

\* process_clusters of a run that is not a dry run, on the clusters from the
\* k-th on: the tables it can leave behind, one for every story that
\* _find_near_duplicate_story can return for each cluster's first article.
RECURSIVE ProcessClusters(_, _, _, _, _)
ProcessClusters(clusters, k, sts, links, assignments) ==
    IF k > Len(clusters) THEN {[stories |-> sts, story_articles |-> links]}
    ELSE LET cluster == clusters[k]
             found == NearDuplicateStories(news.articles, sts, links, cluster[1], news.clock)
             After(near_dup) ==
                LET story == ensure_story_exists(cluster, assignments, FALSE, near_dup,
                                                 Len(sts) + 1)
                    story_id == Val(story.story_id)
                    to_link == ToLink(cluster, story_id, assignments, links)
                    created == IF story.created
                               THEN Append(sts, [created_at |-> news.clock,
                                                 updated_at |-> news.clock])
                               ELSE sts
                IN  ProcessClusters(
                        clusters, k + 1,
                        IF to_link # {}
                        THEN [created EXCEPT ![story_id].updated_at = news.clock]
                        ELSE created,
                        links \cup {<<story_id, a>> : a \in to_link},
                        [a \in DOMAIN assignments |->
                            IF a \in to_link THEN assignments[a] \cup {story_id}
                            ELSE assignments[a]])
         IN  UNION {After(near_dup) :
                        near_dup \in IF found = {} THEN {Null} ELSE {Some(s) : s \in found}}

\* What a second run over the same articles can leave behind: run() once
\* more with the parameters of the run that is about to return; the
\* articles, and so the items and the clusters, are the same.
SecondRun ==
    ProcessClusters(build.clusters, 1, stories, story_articles,
                    load_existing_assignments(story_articles, DOMAIN build.assignments))

\* A run that is not a dry run has processed its clusters.
RunDone == build.pc = "commit" /\ ~build.dry_run

\* C39: a second run of the clusterer over the same articles creates no story
\* and no link and leaves every updated_at as it is; taken for the order of
\* the rows of _find_near_duplicate_story that suits the claim best.
C39_SecondRunChangesNothing ==
    RunDone => [stories |-> stories, story_articles |-> story_articles] \in SecondRun


\* ------------------------------------------------------------------- C40

\* Row i is queued and due: scheduled_at is null or not in the future.
QueuedAndDue(i) == i \in Due(queue, now)

\* Row i has been marked 'sent' or 'error'.
Settled(i) == i \in RowIds(queue) /\ queue[i].status \in {"sent", "error"}

\* C40: with no row enqueued once the loop runs, limits of one or more an
\* hour and a day and quiet hours that end, every queued row that is due is
\* eventually marked 'sent' or 'error' by the loop's calls of process_once.
C40_DueRowsAreSettled ==
    \A i \in 1..LoopRows : QueuedAndDue(i) ~> Settled(i)

\* C40 witness: a row that was due when it was enqueued has been sent at a
\* later hour, after process_once had deferred it, and another row is marked
\* 'error'.
C40_Witness ==
    \E i, j \in RowIds(queue) :
        /\ queue[i].status = "error"
        /\ queue[j].status = "sent"
        /\ queue[j].scheduled_at = Null
        /\ Val(queue[j].sent_at) > queue[j].enqueued_at

==========================================================================
